---------------------------- MODULE Spec2Model ----------------------------
(***************************************************************************)
(* Model of the retrieval-and-ranking core of llm-playground:              *)
(*   - embeddings.py   feature-hashing embedder, cosine                    *)
(*   - chunking.py     sliding-window chunker, MMR selection               *)
(*   - memory.py       in-memory vector index (_Index) and Memory          *)
(*   - concept_index.py  ConceptIndex (concept hierarchy)                  *)
(*   - access_tracker.py / smart_memory.py  feedback store and ranking     *)
(*                                                                         *)
(* Text is a sequence of one-character strings, so that tokenizing,        *)
(* lower-casing, slugging and substring search are computed as the code    *)
(* computes them.  Floats are fixed-point thousandths (see Cosine).        *)
(***************************************************************************)
EXTENDS Integers, Sequences, FiniteSets, TLC

VARIABLES
    tree,       \* ConceptIndex.tree: node id -> Node
    treeKeys,   \* insertion order of ConceptIndex.tree (dict order)
    events,     \* ConceptIndex.events (audit log)
    cret,       \* what the last ConceptIndex call returned
    clast,      \* the last ConceptIndex call: its arguments and pre-state
    insRet,     \* label -> what the first insert(label) returned
    idxVecs,    \* _Index._vecs
    idxMeta,    \* _Index._meta
    idxByHash,  \* _Index._by_hash: content hash -> position (from 0)
    mret,       \* what the last Memory call returned
    mlast,      \* the last Memory call: its arguments and pre-state
    madded,     \* the (url, text) pairs added since the index was last empty
    chIn,       \* the arguments of a chunk_text call
    chOut,      \* what the call returned
    chPc,       \* "ready" before the call, "done" after
    fbItems,        \* table items: item_id -> row
    fbQueries,      \* table queries: qid -> row
    fbInteractions, \* table interactions, in id order
    fbWorkspaces,   \* table workspaces: name -> created_ts
    smItemMap,      \* workspace -> SmartMemory._item_map
    smIndex,        \* workspace -> the _Index of SmartMemory.memory
    fbNow,          \* the clock, in milliseconds
    fbLast,         \* the last SmartMemory call and the interactions before it
    fnIn,       \* the arguments of the function called on its own
    fnOut,      \* what it returned
    fnPc,       \* "idle", "ready" before the call, "done" after it
    thPc,       \* thread -> the statement of its ConceptIndex call it is at
    thLocal,    \* thread -> the arguments and local variables of its call
    thMixed     \* whether a thread has taken a step inside the other's call

conceptVars == <<tree, treeKeys, events, cret, clast, insRet>>

memVars == <<idxVecs, idxMeta, idxByHash, mret, mlast, madded>>

chunkVars == <<chIn, chOut, chPc>>

feedbackVars == <<fbItems, fbQueries, fbInteractions, fbWorkspaces,
                  smItemMap, smIndex, fbNow, fbLast>>

pureVars == <<fnIn, fnOut, fnPc>>

threadVars == <<thPc, thLocal, thMixed>>

vars == <<conceptVars, memVars, chunkVars, feedbackVars, pureVars, threadVars>>

(***************************************************************************)
(* Characters and text                                                     *)
(***************************************************************************)
LowerLetters ==
    {"a","b","c","d","e","f","g","h","i","j","k","l","m",
     "n","o","p","q","r","s","t","u","v","w","x","y","z"}

Digits == {"0","1","2","3","4","5","6","7","8","9"}

UpperToLower ==
    [A |-> "a", B |-> "b", C |-> "c", D |-> "d", E |-> "e", F |-> "f",
     G |-> "g", H |-> "h", I |-> "i", J |-> "j", K |-> "k", L |-> "l",
     M |-> "m", N |-> "n", O |-> "o", P |-> "p", Q |-> "q", R |-> "r",
     S |-> "s", T |-> "t", U |-> "u", V |-> "v", W |-> "w", X |-> "x",
     Y |-> "y", Z |-> "z"]

UpperLetters == DOMAIN UpperToLower

\* [a-z0-9], the complement of _slug_re's class
SlugChars == LowerLetters \cup Digits

\* [A-Za-z0-9], the class of _specificity_score
AlnumChars == LowerLetters \cup UpperLetters \cup Digits

\* \w, the class of TOKEN_RE
WordChars == AlnumChars \cup {"_"}

\* whitespace, the separators of str.split()
SpaceChars == {" "}

LowerChar(c) == IF c \in UpperLetters THEN UpperToLower[c] ELSE c

\* str.lower()
LowerStr(s) == [i \in 1..Len(s) |-> LowerChar(s[i])]

Min(a, b) == IF a <= b THEN a ELSE b

Max(a, b) == IF a >= b THEN a ELSE b

Abs(a) == IF a >= 0 THEN a ELSE -a

RECURSIVE FindAllFrom(_, _, _, _)
FindAllFrom(s, cls, i, cur) ==
    IF i > Len(s)
    THEN (IF cur = <<>> THEN <<>> ELSE <<cur>>)
    ELSE IF s[i] \in cls
         THEN FindAllFrom(s, cls, i + 1, Append(cur, s[i]))
         ELSE (IF cur = <<>> THEN <<>> ELSE <<cur>>)
              \o FindAllFrom(s, cls, i + 1, <<>>)

\* re.findall(r"[cls]+", s): the maximal runs of characters of cls
FindAll(s, cls) == FindAllFrom(s, cls, 1, <<>>)

RECURSIVE SlugSubFrom(_, _, _, _)
SlugSubFrom(s, rep, i, inRun) ==
    IF i > Len(s)
    THEN <<>>
    ELSE IF s[i] \in SlugChars
         THEN <<s[i]>> \o SlugSubFrom(s, rep, i + 1, FALSE)
         ELSE (IF inRun THEN <<>> ELSE <<rep>>)
              \o SlugSubFrom(s, rep, i + 1, TRUE)

\* _slug_re.sub(rep, s): every maximal run outside [a-z0-9] becomes rep
SlugSub(s, rep) == SlugSubFrom(s, rep, 1, FALSE)

RECURSIVE StripLeft(_, _)
StripLeft(s, ch) ==
    IF s # <<>> /\ Head(s) = ch THEN StripLeft(Tail(s), ch) ELSE s

RECURSIVE StripRight(_, _)
StripRight(s, ch) ==
    IF s # <<>> /\ s[Len(s)] = ch
    THEN StripRight(SubSeq(s, 1, Len(s) - 1), ch)
    ELSE s

\* str.strip(ch)
Strip(s, ch) == StripRight(StripLeft(s, ch), ch)

\* hay.find(needle) >= 0
HasSubstring(hay, needle) ==
    \E i \in 0..(Len(hay) - Len(needle)) :
        SubSeq(hay, i + 1, i + Len(needle)) = needle

RECURSIVE SumSeq(_)
SumSeq(s) == IF s = <<>> THEN 0 ELSE Head(s) + SumSeq(Tail(s))

SeqToSet(s) == {s[i] : i \in 1..Len(s)}

(***************************************************************************)
(* embeddings.py                                                           *)
(***************************************************************************)
EMBED_DIM == 384

\* _hash_token: SHA-256 of "brt_v1::" + token, first four bytes mod 384 and
\* the parity of the fifth byte, tabulated for the tokens the model uses.
HashToken(tok) ==
    CASE tok = <<"r","o","o","t">> -> [idx |-> 328, sign |-> 1]
      [] tok = <<"j","w","t">> -> [idx |-> 352, sign |-> 1]
      [] tok = <<"a","u","t","h">> -> [idx |-> 203, sign |-> 1]
      [] tok = <<"f","l","o","w">> -> [idx |-> 244, sign |-> -1]
      [] tok = <<"a","u","t","h","e","n","t","i","c","a","t","i","o","n">> -> [idx |-> 33, sign |-> -1]
      [] tok = <<"n","o","d","e">> -> [idx |-> 165, sign |-> 1]
      [] tok = <<"s","e","s","s","i","o","n">> -> [idx |-> 129, sign |-> 1]
      [] tok = <<"t","o","k","e","n">> -> [idx |-> 353, sign |-> -1]
      [] tok = <<"l","o","g","i","n">> -> [idx |-> 174, sign |-> 1]
      [] tok = <<"a">> -> [idx |-> 114, sign |-> -1]
      [] tok = <<"b">> -> [idx |-> 362, sign |-> -1]
      [] tok = <<"c">> -> [idx |-> 296, sign |-> -1]
      [] tok = <<"d">> -> [idx |-> 327, sign |-> -1]
      [] tok = <<"e">> -> [idx |-> 127, sign |-> 1]
      [] tok = <<"f">> -> [idx |-> 268, sign |-> 1]
      [] tok = <<"g">> -> [idx |-> 316, sign |-> 1]
      [] tok = <<"h">> -> [idx |-> 287, sign |-> 1]
      [] tok = <<"i">> -> [idx |-> 77, sign |-> 1]
      [] tok = <<"j">> -> [idx |-> 102, sign |-> -1]
      [] tok = <<"k">> -> [idx |-> 277, sign |-> 1]
      [] tok = <<"l">> -> [idx |-> 175, sign |-> 1]
      [] tok = <<"m">> -> [idx |-> 210, sign |-> -1]
      [] tok = <<"n">> -> [idx |-> 341, sign |-> -1]
      [] tok = <<"o">> -> [idx |-> 45, sign |-> -1]
      [] tok = <<"p">> -> [idx |-> 218, sign |-> -1]
      [] tok = <<"q">> -> [idx |-> 338, sign |-> -1]
      [] tok = <<"r">> -> [idx |-> 157, sign |-> -1]
      [] tok = <<"s">> -> [idx |-> 260, sign |-> -1]
      [] tok = <<"t">> -> [idx |-> 242, sign |-> 1]
      [] tok = <<"u">> -> [idx |-> 7, sign |-> -1]
      [] tok = <<"v">> -> [idx |-> 29, sign |-> 1]
      [] tok = <<"w">> -> [idx |-> 244, sign |-> 1]
      [] tok = <<"x">> -> [idx |-> 35, sign |-> -1]
      [] tok = <<"y">> -> [idx |-> 262, sign |-> -1]
      [] tok = <<"z">> -> [idx |-> 310, sign |-> -1]

\* _tokenize
Tokenize(text) == FindAll(LowerStr(text), WordChars)

\* embed_one before normalization: the accumulator, as a function from the
\* touched indices to the summed signs.  _l2_normalize only rescales it; the
\* scale is divided out again by Cosine, so vectors are kept unnormalized.
EmbedOne(text) ==
    LET HashAll(toks) == [k \in 1..Len(toks) |-> HashToken(toks[k])]
        Accumulate(hs) ==
            [i \in {hs[k].idx : k \in 1..Len(hs)} |->
                SumSeq([k \in 1..Len(hs) |->
                           IF hs[k].idx = i THEN hs[k].sign ELSE 0])]
    IN  Accumulate(HashAll(Tokenize(text)))

RECURSIVE SumOver(_, _)
SumOver(f, S) ==
    IF S = {} THEN 0
    ELSE LET x == CHOOSE y \in S : TRUE
         IN  f[x] + SumOver(f, S \ {x})

Dot(u, v) ==
    LET common == DOMAIN u \cap DOMAIN v
    IN  SumOver([i \in common |-> u[i] * v[i]], common)

Norm2(u) == Dot(u, u)

RECURSIVE ISqrtBetween(_, _, _)
ISqrtBetween(n, lo, hi) ==
    IF hi - lo <= 1 THEN lo
    ELSE LET mid == (lo + hi) \div 2
         IN  IF mid * mid <= n
             THEN ISqrtBetween(n, mid, hi)
             ELSE ISqrtBetween(n, lo, mid)

\* floor of the square root
ISqrt(n) == ISqrtBetween(n, 0, 46341)

\* fixed-point unit: a float x is the integer trunc(1000 * x)
SCALE == 10 * 10 * 10

\* a cosine that leaves the two denominators out
CosineNoDenominators(u, v) == Dot(u, v) * SCALE

\* cosine (a zero denominator counts as 1.0, so a zero vector gives 0)
Cosine(u, v) ==
    LET Signed(d, m) == IF d > 0 THEN m ELSE -m
        Ratio(d, nn) ==
            IF nn = 0 \/ d = 0 THEN 0
            ELSE Signed(d, ISqrt((d * d * SCALE * SCALE) \div nn))
    IN  Ratio(Dot(u, v), Norm2(u) * Norm2(v))

(***************************************************************************)
(* concept_index.py                                                        *)
(***************************************************************************)
\* None (a parent_id); no node id is empty
NULL == <<>>

ROOT == <<"r","o","o","t">>

\* the slug cap of _node_id
SLUG_CAP == 48

\* _node_id
NodeId(label) ==
    LET Cap(s0)    == SubSeq(s0, 1, Min(Len(s0), SLUG_CAP))
        OrNode(s1) == IF s1 = <<>> THEN <<"n","o","d","e">> ELSE s1
    IN  <<"n","o","d","e","_">>
            \o OrNode(Cap(Strip(SlugSub(LowerStr(label), "_"), "_")))

\* _contains(a, b)
Contains(a, b) ==
    HasSubstring(SlugSub(LowerStr(a), " "), SlugSub(LowerStr(b), " "))

\* _specificity_score, in quarters: 4 * (word_count + 0.25 * longer)
SpecificityScore(text) ==
    LET Score(toks) ==
            4 * Len(toks) + Cardinality({k \in 1..Len(toks) : Len(toks[k]) >= 4})
    IN  Score(FindAll(text, AlnumChars))

\* the bias of compare_generality: 0 on a tie, else +1 or -1.
\* abs(len_a - len_b) <= 0.15 * max(1.0, len_b), with both sides times 80
GeneralityBias(a, b) ==
    LET Bias(la, lb) ==
            IF 20 * Abs(la - lb) <= 3 * Max(4, lb) THEN 0
            ELSE IF la > lb THEN 1 ELSE -1
    IN  Bias(SpecificityScore(a), SpecificityScore(b))

\* contains_bias of compare_generality, in halves
ContainsBias(a, b) ==
    (IF Contains(b, a) THEN 1 ELSE 0) - (IF Contains(a, b) THEN 1 ELSE 0)

\* compare_generality: score = bias + contains_bias against +-0.15
CompareGenerality(a, b) ==
    LET Decision(score20) ==
            IF score20 > 3 THEN "more_specific"
            ELSE IF score20 < -3 THEN "more_general"
            ELSE "same_level"
    IN  Decision(20 * GeneralityBias(a, b) + 10 * ContainsBias(a, b))

\* is_related; parent_label None or "" counts as no parent
IsRelated(concept, node_label, parent_label) ==
    LET Sim(v, label) == Cosine(v, EmbedOne(label))
        Related(v) ==
            Sim(v, node_label) >=
                Max(350, (IF parent_label # <<>> THEN Sim(v, parent_label) ELSE 0)
                             + 50)
    IN  Related(EmbedOne(concept))

\* Node(...); centroid, support_docs and summary_50w are never read back
Node(id, label, parent_id, status) ==
    [id |-> id, label |-> label, parent_id |-> parent_id,
     children |-> <<>>, status |-> status]

\* a ConceptIndex: its tree (with the dict's key order) and its events
CIState(t, k, e) == [tree |-> t, keys |-> k, events |-> e]

\* ConceptIndex.__init__
NewConceptIndex ==
    CIState([n \in {ROOT} |-> Node(ROOT, ROOT, NULL, "stable")], <<ROOT>>, <<>>)

\* tree[nid] = node
PutNode(st, nid, node) ==
    IF nid \in DOMAIN st.tree
    THEN [st EXCEPT !.tree[nid] = node]
    ELSE [st EXCEPT !.tree = [n \in DOMAIN st.tree \cup {nid} |->
                                 IF n = nid THEN node ELSE st.tree[n]],
                    !.keys = Append(st.keys, nid)]

\* _event (the wall-clock field is left out)
Event(st, action, frm, to, reason) ==
    [st EXCEPT !.events = Append(st.events,
        [action |-> action, from |-> frm, to |-> to, reason |-> reason])]

\* _adopt_child
AdoptChild(st, parent_id, child_id) ==
    IF child_id \in SeqToSet(st.tree[parent_id].children)
    THEN st
    ELSE [st EXCEPT !.tree[parent_id].children = Append(@, child_id)]

\* list.remove: drop the first occurrence
RemoveFirst(s, x) ==
    LET i == CHOOSE j \in 1..Len(s) : s[j] = x /\ \A k \in 1..(j - 1) : s[k] # x
    IN  SubSeq(s, 1, i - 1) \o SubSeq(s, i + 1, Len(s))

\* a _drop_child that leaves the child list as it is
DropChildKept(st, parent_id, child_id) == st

\* _drop_child
DropChild(st, parent_id, child_id) ==
    IF child_id \in SeqToSet(st.tree[parent_id].children)
    THEN [st EXCEPT !.tree[parent_id].children = RemoveFirst(@, child_id)]
    ELSE st

\* _ensure_node: the state after, and the id returned
EnsureNode(st, label, parent_id) ==
    LET \* if parent_id not in self.tree: a placeholder node for it
        WithParent(s1) ==
            IF parent_id \notin DOMAIN s1.tree
            THEN PutNode(s1, parent_id,
                     Node(parent_id, parent_id, NULL, "tentative"))
            ELSE s1
        Attached(s1, nid) ==
            IF parent_id # NULL THEN AdoptChild(s1, parent_id, nid) ELSE s1
        Ensure(nid) ==
            IF nid \in DOMAIN st.tree
            THEN IF parent_id # NULL /\ st.tree[nid].parent_id = NULL
                 THEN [st  |-> AdoptChild(
                                   WithParent([st EXCEPT
                                       !.tree[nid].parent_id = parent_id]),
                                   parent_id, nid),
                       ret |-> nid]
                 ELSE [st |-> st, ret |-> nid]
            ELSE [st  |-> Event(Attached(PutNode(st, nid,
                                    Node(nid, label, parent_id, "tentative")),
                                    nid),
                                "insert", <<>>, nid, "attach"),
                  ret |-> nid]
    IN  Ensure(NodeId(label))

\* what self.tree[node_id] raises for an id that is not a key of the dict
KeyError == <<"K","e","y","E","r","r","o","r">>

\* handle_promotion
HandlePromotion(st, concept, node_id) ==
    LET \* if parent_id is not None: drop node_id there, adopt new_id instead
        Rewired(s1, parent_id, new_id) ==
            IF parent_id # NULL
            THEN AdoptChild(DropChild(s1, parent_id, node_id), parent_id, new_id)
            ELSE s1
        \* the calls after en = _ensure_node(concept, parent_id)
        Promoted(en, parent_id) ==
            [st  |-> Event(Rewired(AdoptChild(en.st, en.ret, node_id),
                                   parent_id, en.ret),
                           "promotion", node_id, en.ret, "more_general"),
             ret |-> en.ret]
        Promote(parent_id) ==
            Promoted(EnsureNode(st, concept, parent_id), parent_id)
    IN  IF node_id \notin DOMAIN st.tree
        THEN [st |-> st, ret |-> KeyError]
        ELSE Promote(st.tree[node_id].parent_id)

\* the first child of start, in list order, that is_related to concept
\* (0 when there is none)
FirstRelatedChild(st, concept, start_id) ==
    LET First(rel) == IF rel = {} THEN 0 ELSE CHOOSE k \in rel : \A j \in rel : k <= j
        Among(start) ==
            First({k \in 1..Len(start.children) :
                      IsRelated(concept, st.tree[start.children[k]].label,
                                start.label)})
    IN  Among(st.tree[start_id])

\* what insert raises when its descent never ends (a child list that leads
\* back to a node already visited)
RecursionError == <<"R","e","c","u","r","s","i","o","n","E","r","r","o","r">>

\* insert.  Nothing is written before the tail call, so a descent that comes
\* back to a node it has visited repeats forever: Python's recursion limit
\* ends it with RecursionError and the index as it was.
RECURSIVE InsertFrom(_, _, _, _)
InsertFrom(st, concept, start_id, visited) ==
    LET \* descend into the first related child, or attach here
        Descend(start, k) ==
            IF k # 0
            THEN InsertFrom(st, concept, start.children[k],
                            visited \cup {start_id})
            ELSE EnsureNode(st, concept, start.id)
        Decide(start, decision) ==
            IF decision = "same_level"
            THEN [st |-> st,
                  ret |-> IF start.parent_id # NULL THEN start.parent_id
                          ELSE start.id]
            ELSE IF decision = "more_specific"
            THEN Descend(start, FirstRelatedChild(st, concept, start_id))
            ELSE HandlePromotion(st, concept, start.id)
        From(start) == Decide(start, CompareGenerality(concept, start.label))
    IN  IF start_id \notin DOMAIN st.tree
        THEN [st |-> st, ret |-> KeyError]
        ELSE IF start_id \in visited
        THEN [st |-> st, ret |-> RecursionError]
        ELSE From(st.tree[start_id])

\* an insert that returns the id it started from
InsertReturnsStart(st, concept, start_id) ==
    [InsertFrom(st, concept, start_id, {}) EXCEPT !.ret = start_id]

Insert(st, concept, start_id) == InsertFrom(st, concept, start_id, {})

\* what a call that never returns is given as: _path_str on a parent_id
\* chain that leads back into itself appends labels until memory runs out
NeverReturns == <<"n","e","v","e","r"," ","r","e","t","u","r","n","s">>

\* the loop of _path_str: the labels from nid up the parent_id chain, the
\* node's own label first
RECURSIVE PathUp(_, _, _)
PathUp(st, cur, visited) ==
    IF cur = NULL THEN <<>>
    ELSE IF cur \in visited THEN <<NeverReturns>>
    ELSE <<st.tree[cur].label>>
             \o PathUp(st, st.tree[cur].parent_id, visited \cup {cur})

\* seq.reverse()
Reverse(s) == [i \in 1..Len(s) |-> s[Len(s) + 1 - i]]

\* " > ".join(seq)
RECURSIVE JoinPath(_)
JoinPath(seq) ==
    IF seq = <<>> THEN <<>>
    ELSE IF Len(seq) = 1 THEN seq[1]
    ELSE seq[1] \o <<" ",">"," ">> \o JoinPath(Tail(seq))

\* the label chain _path_str joins, root end first
PathLabels(st, nid) == Reverse(PathUp(st, nid, {}))

\* _path_str
PathStr(st, nid) ==
    LET seq == PathLabels(st, nid)
    IN  IF seq # <<>> /\ seq[1] = NeverReturns THEN NeverReturns
        ELSE JoinPath(seq)

\* the loop of resolve_path over tree.items(): the best (nid, sim) so far
RECURSIVE BestNode(_, _, _, _)
BestNode(st, qv, keys, best) ==
    IF keys = <<>> THEN best
    ELSE LET sim == Cosine(qv, EmbedOne(st.tree[Head(keys)].label))
         IN  BestNode(st, qv, Tail(keys),
                      IF sim > best.sim THEN [nid |-> Head(keys), sim |-> sim]
                      ELSE best)

\* resolve_path: the id of the node whose ancestry is returned
ResolveNode(st, query_label) ==
    BestNode(st, EmbedOne(query_label), st.keys,
             [nid |-> ROOT, sim |-> -SCALE]).nid

\* resolve_path
ResolvePath(st, query_label) ==
    IF st.keys = <<>> THEN ROOT
    ELSE PathStr(st, ResolveNode(st, query_label))

(***************************************************************************)
(* chunking.py                                                             *)
(***************************************************************************)
\* _split_tokens: str.split() on whitespace
SplitTokens(text) == FindAll(text, SeqToSet(text) \ SpaceChars)

RECURSIVE JoinSpace(_)
\* " ".join(tokens)
JoinSpace(toks) ==
    IF toks = <<>> THEN <<>>
    ELSE IF Len(toks) = 1 THEN toks[1]
    ELSE toks[1] \o <<" ">> \o JoinSpace(Tail(toks))

\* text_hash: SHA-256 is taken to be free of collisions, so a hash is its
\* preimage under a tag
TextHash(txt) == [sha256 |-> txt]

\* the Chunk built for the window toks[start:end] (created_at, a wall-clock
\* stamp, is left out)
MakeChunk(charter_id, url, selector, toks, last_updated, size, overlap, start, end) ==
    LET window_tokens == SubSeq(toks, start + 1, end)
        txt           == JoinSpace(window_tokens)
    IN  [id |-> TextHash(txt), charter_id |-> charter_id, url |-> url,
         selector |-> selector, text |-> txt, tokens |-> Len(window_tokens),
         split_algo |-> <<"sliding", size, overlap>>,
         last_updated |-> last_updated, hash |-> TextHash(txt),
         start_idx |-> start, end_idx |-> end]

\* the loop of chunk_text: for start in range(start, n, step), leaving at the
\* first window whose end is n
RECURSIVE ChunkLoop(_, _, _, _, _, _, _, _, _)
ChunkLoop(charter_id, url, selector, toks, last_updated, size, overlap, step, start) ==
    LET n   == Len(toks)
        end == Min(n, start + size)
        c   == MakeChunk(charter_id, url, selector, toks, last_updated,
                         size, overlap, start, end)
    IN  IF start >= n THEN <<>>
        ELSE IF end = n THEN <<c>>
        ELSE <<c>> \o ChunkLoop(charter_id, url, selector, toks, last_updated,
                                size, overlap, step, start + step)

\* chunk_text with the overlap added to the window instead of subtracted when
\* the step is computed
ChunkTextStepSlip(charter_id, url, selector, text, last_updated, size, overlap) ==
    LET toks == SplitTokens(text)
    IN  IF Len(toks) = 0 THEN <<>>
        ELSE ChunkLoop(charter_id, url, selector, toks, last_updated,
                       size, overlap, Max(1, size + overlap), 0)

\* chunk_text
ChunkText(charter_id, url, selector, text, last_updated, size, overlap) ==
    LET toks == SplitTokens(text)
    IN  IF Len(toks) = 0 THEN <<>>
        ELSE ChunkLoop(charter_id, url, selector, toks, last_updated,
                       size, overlap, Max(1, size - overlap), 0)

\* max(cosine(vec_i, s_vec) for s_vec, _ in selected), selected not empty
RECURSIVE MaxCosine(_, _)
MaxCosine(vec_i, selected) ==
    IF Len(selected) = 1 THEN Cosine(vec_i, selected[1].vec)
    ELSE Max(Cosine(vec_i, Head(selected).vec),
             MaxCosine(vec_i, Tail(selected)))

\* the score of a round of mmr_select without its diversity term
MmrScoreNoDiversity(cands, sims_q, selected, lambda10, i) ==
    lambda10 * sims_q[i]

\* the score of candidate i in one round of mmr_select, in ten-thousandths:
\* lambda * rel - (1 - lambda) * div_term, lambda given in tenths
MmrScore(cands, sims_q, selected, lambda10, i) ==
    LET rel      == sims_q[i]
        div_term == IF selected = <<>> THEN 0
                    ELSE MaxCosine(cands[i].vec, selected)
    IN  lambda10 * rel - (10 - lambda10) * div_term

\* the inner loop of mmr_select from candidate i on: best_idx after it (-1
\* while best_score is still -inf)
RECURSIVE MmrScan(_, _, _, _, _, _, _, _)
MmrScan(cands, sims_q, chosen, selected, lambda10, i, best_idx, best_score) ==
    LET Compare(score) ==
            IF best_idx = -1 \/ score > best_score
            THEN MmrScan(cands, sims_q, chosen, selected, lambda10, i + 1,
                         i, score)
            ELSE MmrScan(cands, sims_q, chosen, selected, lambda10, i + 1,
                         best_idx, best_score)
    IN  IF i > Len(cands) THEN best_idx
        ELSE IF i \in chosen
        THEN MmrScan(cands, sims_q, chosen, selected, lambda10, i + 1,
                     best_idx, best_score)
        ELSE Compare(MmrScore(cands, sims_q, selected, lambda10, i))

\* a round of mmr_select that takes the last candidate not chosen yet
MmrBestLast(cands, sims_q, chosen, selected, lambda10) ==
    LET Last(free) ==
            IF free = {} THEN -1 ELSE CHOOSE i \in free : \A j \in free : j <= i
    IN  Last((1..Len(cands)) \ chosen)

\* best_idx of one round of mmr_select
MmrBest(cands, sims_q, chosen, selected, lambda10) ==
    MmrScan(cands, sims_q, chosen, selected, lambda10, 1, -1, 0)

RECURSIVE MmrLoop(_, _, _, _, _, _)
MmrLoop(cands, sims_q, chosen, selected, lambda10, rounds) ==
    LET Pick(best) ==
            IF rounds = 0 \/ best = -1 THEN selected
            ELSE MmrLoop(cands, sims_q, chosen \cup {best},
                         Append(selected, cands[best]), lambda10, rounds - 1)
    IN  Pick(MmrBest(cands, sims_q, chosen, selected, lambda10))

\* sims_q of mmr_select: every candidate's cosine to the query
RECURSIVE QuerySims(_, _)
QuerySims(cands, query_vec) ==
    IF cands = <<>> THEN <<>>
    ELSE <<Cosine(Head(cands).vec, query_vec)>>
             \o QuerySims(Tail(cands), query_vec)

\* mmr_select: candidates are [vec, meta] pairs
MmrSelect(cands, query_vec, k, lambda10) ==
    IF cands = <<>> THEN <<>>
    ELSE MmrLoop(cands, QuerySims(cands, query_vec),
                 {}, <<>>, lambda10, Min(Max(k, 0), Len(cands)))

(***************************************************************************)
(* memory.py                                                               *)
(***************************************************************************)
\* the arguments Memory.add passes to chunk_text
ADD_SIZE == 800

ADD_OVERLAP == 160

\* the topn Memory.search passes to knn
TOPN == 24

\* the lambda_mult Memory.search passes to mmr_select, in tenths
MMR_LAMBDA10 == 7

\* the snippet length of a Hit
SNIPPET_LEN == 300

\* an _Index
IndexState(v, m, h) == [vecs |-> v, meta |-> m, by_hash |-> h]

\* _Index.__init__, and _Index.clear
EmptyIndex == IndexState(<<>>, <<>>, <<>>)

\* a turn of the loop of _Index.upsert that does not look the hash up
UpsertOneAlwaysAppend(ix, v, m) ==
    IndexState(Append(ix.vecs, v), Append(ix.meta, m),
               [h \in DOMAIN ix.by_hash \cup {m.hash} |->
                   IF h = m.hash THEN Len(ix.vecs) ELSE ix.by_hash[h]])

\* a turn of the loop of _Index.upsert that also stores the vector given
\* with a hash it knows
UpsertOneReplacesVector(ix, v, m) ==
    IF m.hash \in DOMAIN ix.by_hash
    THEN [ix EXCEPT !.meta[ix.by_hash[m.hash] + 1] = m,
                    !.vecs[ix.by_hash[m.hash] + 1] = v]
    ELSE IndexState(Append(ix.vecs, v), Append(ix.meta, m),
                    [h \in DOMAIN ix.by_hash \cup {m.hash} |->
                        IF h = m.hash THEN Len(ix.vecs) ELSE ix.by_hash[h]])

\* one turn of the loop of _Index.upsert
UpsertOne(ix, v, m) ==
    IF m.hash \in DOMAIN ix.by_hash
    THEN [ix EXCEPT !.meta[ix.by_hash[m.hash] + 1] = m]
    ELSE IndexState(Append(ix.vecs, v), Append(ix.meta, m),
                    [h \in DOMAIN ix.by_hash \cup {m.hash} |->
                        IF h = m.hash THEN Len(ix.vecs) ELSE ix.by_hash[h]])

\* _Index.upsert
RECURSIVE IndexUpsert(_, _, _)
IndexUpsert(ix, vecs, metas) ==
    IF vecs = <<>> THEN ix
    ELSE IndexUpsert(UpsertOne(ix, Head(vecs), Head(metas)),
                     Tail(vecs), Tail(metas))

\* str.startswith
StartsWith(s, prefix) ==
    Len(prefix) <= Len(s) /\ SubSeq(s, 1, Len(prefix)) = prefix

\* one pattern of allowed_domains: a prefix, with or without a final '*'
DomainMatches(url, pat) ==
    IF pat # <<>> /\ pat[Len(pat)] = "*"
    THEN StartsWith(url, SubSeq(pat, 1, Len(pat) - 1))
    ELSE StartsWith(url, pat)

\* _match_filters; filters is a function from the keys given to their values
MatchFilters(meta, filters) ==
    /\ "allowed_domains" \in DOMAIN filters =>
           \E i \in 1..Len(filters["allowed_domains"]) :
               DomainMatches(meta.url, filters["allowed_domains"][i])
    /\ "selector" \in DOMAIN filters => meta.selector = filters["selector"]
    /\ "charter_id" \in DOMAIN filters =>
           meta.charter_id = filters["charter_id"]
    /\ "url_prefixes" \in DOMAIN filters =>
           \E i \in 1..Len(filters["url_prefixes"]) :
               StartsWith(meta.url, filters["url_prefixes"][i])

\* list.sort(key=score, reverse=True): stable, so equal scores keep their order
RECURSIVE SortByScoreDesc(_)
SortByScoreDesc(s) ==
    IF s = <<>> THEN <<>>
    ELSE LET rest == SortByScoreDesc(SubSeq(s, 1, Len(s) - 1))
             x    == s[Len(s)]
             pos  == Cardinality({i \in 1..Len(rest) : rest[i].score >= x.score})
         IN  SubSeq(rest, 1, pos) \o <<x>> \o SubSeq(rest, pos + 1, Len(rest))

\* s[:k] for k >= 0
Take(s, k) == SubSeq(s, 1, Min(Max(k, 0), Len(s)))

\* the positions of the entries a filter dict lets through
Matching(ix, filters) ==
    {i \in 1..Len(ix.vecs) :
        DOMAIN filters = {} \/ MatchFilters(ix.meta[i], filters)}

\* _Index.knn: [score, meta] pairs
IndexKnn(ix, qvec, topn, filters) ==
    LET Scored(i) == [score |-> Cosine(qvec, ix.vecs[i]), meta |-> ix.meta[i]]
        \* the entries let through, in index order
        Scores(keep) ==
            [r \in 1..Cardinality(keep) |->
                Scored(CHOOSE j \in keep : Cardinality({l \in keep : l <= j}) = r)]
    IN  Take(SortByScoreDesc(Scores(Matching(ix, filters))), topn)

\* Hit(...); "..." stands for the one-character ellipsis that ends a cut
\* snippet
Hit(score, meta) ==
    [score |-> score, text |-> meta.text,
     snippet |-> IF Len(meta.text) > SNIPPET_LEN
                 THEN Append(SubSeq(meta.text, 1, SNIPPET_LEN), "...")
                 ELSE meta.text,
     metadata |-> meta]

\* the candidates Memory.search gives mmr_select: the texts of top, embedded
\* again
RECURSIVE Candidates(_)
Candidates(top) ==
    IF top = <<>> THEN <<>>
    ELSE <<[vec |-> EmbedOne(Head(top).meta.text), meta |-> Head(top).meta]>>
             \o Candidates(Tail(top))

\* filters or {} of Memory.search when no filters are given
NoFilters == [key \in {} |-> <<>>]

\* the filter dict Memory.search hands to knn
SearchFilters(charter_id, filters, filter_allowed) ==
    IF filter_allowed /\ "charter_id" \notin DOMAIN filters
    THEN [key \in DOMAIN filters \cup {"charter_id"} |->
             IF key = "charter_id" THEN charter_id ELSE filters[key]]
    ELSE filters

\* Memory.search: the list of hits
MemorySearch(ix, charter_id, query, k, filters, filter_allowed, mmr) ==
    LET Hits(shown) ==
            [i \in 1..Len(shown) |-> Hit(shown[i].score, shown[i].meta)]
        \* the selection of mmr_select, scored against the query and sorted
        Rescored(sel, qv) ==
            SortByScoreDesc([i \in 1..Len(sel) |->
                                [score |-> Cosine(qv, sel[i].vec),
                                 meta  |-> sel[i].meta]])
        Picked(top, qv) ==
            IF mmr
            THEN Rescored(MmrSelect(Candidates(top), qv, k, MMR_LAMBDA10), qv)
            ELSE Take(top, k)
        Search(qv) ==
            Hits(Take(Picked(IndexKnn(ix, qv, TOPN,
                                      SearchFilters(charter_id, filters,
                                                    filter_allowed)),
                             qv),
                      k))
    IN  Search(EmbedOne(query))

\* a clear that empties the two lists and keeps the content-hash lookup
IndexClearKeepsHashes(ix) == IndexState(<<>>, <<>>, ix.by_hash)

\* _Index.clear
IndexClear(ix) == IndexState(<<>>, <<>>, <<>>)

\* Memory.reset: the index after
MemoryReset(ix) == IndexClear(ix)

\* the metadata dict Memory.add builds for a chunk
ChunkMeta(c) == c

\* Memory.add: the index after, and the chunks returned
MemoryAdd(ix, charter_id, url, text, selector, last_updated) ==
    LET Upserted(chunks) ==
            [ix  |-> IndexUpsert(ix,
                         [i \in 1..Len(chunks) |-> EmbedOne(chunks[i].text)],
                         [i \in 1..Len(chunks) |-> ChunkMeta(chunks[i])]),
             ret |-> chunks]
    IN  Upserted(ChunkText(charter_id, url, selector, text, last_updated,
                           ADD_SIZE, ADD_OVERLAP))

(***************************************************************************)
(* access_tracker.py and smart_memory.py                                   *)
(***************************************************************************)
\* the database of an AccessTracker
Tracker(items, queries, interactions, workspaces) ==
    [items |-> items, queries |-> queries, interactions |-> interactions,
     workspaces |-> workspaces]

\* _init_schema on a new file: four empty tables
NewTracker == Tracker(<<>>, <<>>, <<>>, <<>>)

\* f with key k set to v (INSERT OR REPLACE by primary key, dict assignment)
Put(f, k, v) == [x \in DOMAIN f \cup {k} |-> IF x = k THEN v ELSE f[x]]

\* content_hash: the first 12 hex digits of SHA-256, taken to be free of
\* collisions
ContentHash(text) == [sha256_12 |-> text]

\* Feedback(useful, dwell_ms, click_rank)
Feedback(useful, dwell_ms, click_rank) ==
    [useful |-> useful, dwell_ms |-> dwell_ms, click_rank |-> click_rank]

\* AccessTracker.ensure_workspace: INSERT OR IGNORE
EnsureWorkspace(db, workspace, now) ==
    IF workspace \in DOMAIN db.workspaces THEN db
    ELSE [db EXCEPT !.workspaces = Put(db.workspaces, workspace, now)]

\* AccessTracker.add_item: the database after, and the item_id returned
AddItem(db, workspace, path, content, concept, now) ==
    LET db1     == EnsureWorkspace(db, workspace, now)
        chash   == ContentHash(content)
        item_id == <<chash, path>>
        row     == [workspace |-> workspace, item_id |-> item_id,
                    path |-> path, content_hash |-> chash,
                    concept |-> concept, created_ts |-> now]
    IN  [db  |-> [db1 EXCEPT !.items = Put(db1.items, item_id, row)],
         ret |-> item_id]

\* the rows of table queries are kept in rowid order: INSERT OR REPLACE
\* deletes the row of the same qid and inserts the new one with a new rowid
ReplaceQuery(rows, row) ==
    LET Other(r) == r.qid # row.qid
    IN  Append(SelectSeq(rows, Other), row)

\* AccessTracker.log_query: the database after, and the qid returned.  The
\* embedding is stored as JSON text, here the one-element tuple of the vector
\* (a list of EMBED_DIM floats is never falsy, so the column is never NULL).
LogQuery(db, workspace, query, embedding, now) ==
    LET db1   == EnsureWorkspace(db, workspace, now)
        qhash == [sha256_16 |-> LowerStr(query)]
        qid   == <<workspace, qhash, now>>
        row   == [qid |-> qid, workspace |-> workspace, query |-> query,
                  issued_ts |-> now, qhash |-> qhash,
                  qembedding |-> <<embedding>>]
    IN  [db  |-> [db1 EXCEPT !.queries = ReplaceQuery(db1.queries, row)],
         ret |-> qid]

\* AccessTracker.log_interaction: a plain INSERT, the id counting up
LogInteraction(db, qid, item_id, feedback, now) ==
    [db EXCEPT !.interactions =
        Append(db.interactions,
               [id |-> Len(db.interactions) + 1, qid |-> qid,
                item_id |-> item_id, useful |-> feedback.useful,
                dwell_ms |-> feedback.dwell_ms,
                click_rank |-> feedback.click_rank, ts |-> now])]

\* the first seven hex digits of a qhash, as a number: the index
\* idx_queries_workspace (workspace, qhash) returns rows in this order
QHashPrefix(qhash) ==
    CASE
         qhash = [sha256_16 |-> <<"j","w","t"," ","a","u","t","h">>] -> 52798147
      [] qhash = [sha256_16 |-> <<"a","u","t","h"," ","j","w","t">>] -> 231914223
      [] qhash = [sha256_16 |-> <<"s","e","s","s","i","o","n"," ","t","o","k","e","n">>] -> 162765443
      [] qhash = [sha256_16 |-> <<"j","w","t"," ","a","u","t","h"," ","s","e","s","s","i","o","n"," ","t","o","k","e","n">>] -> 231148755
      [] qhash = [sha256_16 |-> <<"j","w","t">>] -> 264846512
      [] qhash = [sha256_16 |-> <<"a","u","t","h">>] -> 199182787
      [] qhash = [sha256_16 |-> <<"t","o","k","e","n">>] -> 63203817
      [] qhash = [sha256_16 |-> <<>>] -> 238750788

\* rows in the order SELECT ... FROM queries WHERE workspace = ? returns them:
\* by qhash, rows of one qhash by rowid
RECURSIVE ByQHash(_)
ByQHash(rows) ==
    IF rows = <<>> THEN <<>>
    ELSE LET rest == ByQHash(SubSeq(rows, 1, Len(rows) - 1))
             x    == rows[Len(rows)]
             pos  == Cardinality({i \in 1..Len(rest) :
                         QHashPrefix(rest[i].qhash) <= QHashPrefix(x.qhash)})
         IN  SubSeq(rest, 1, pos) \o <<x>> \o SubSeq(rest, pos + 1, Len(rest))

\* [score, qid] of every row whose similarity reaches the threshold
RECURSIVE SimilarRows(_, _, _)
SimilarRows(rows, query_embedding, threshold) ==
    IF rows = <<>> THEN <<>>
    ELSE LET sim == Cosine(query_embedding, Head(rows).qembedding[1])
         IN  (IF sim >= threshold
              THEN <<[score |-> sim, qid |-> Head(rows).qid]>> ELSE <<>>)
                 \o SimilarRows(Tail(rows), query_embedding, threshold)

\* AccessTracker.get_similar_queries: the qids of the query cluster
GetSimilarQueries(db, workspace, query_embedding, threshold, limit) ==
    LET InWorkspace(r) == r.workspace = workspace /\ r.qembedding # NULL
        Qids(similar)  == [i \in 1..Len(similar) |-> similar[i].qid]
    IN  Qids(Take(SortByScoreDesc(
                      SimilarRows(ByQHash(SelectSeq(db.queries, InWorkspace)),
                                  query_embedding, threshold)),
                  limit))

\* AccessTracker.get_item_interactions (since_ts not given)
GetItemInteractions(db, item_id, cluster_qids) ==
    LET Wanted(r) ==
            /\ r.item_id = item_id
            /\ cluster_qids # <<>> => r.qid \in SeqToSet(cluster_qids)
    IN  SelectSeq(db.interactions, Wanted)

\* ScoringConfig: the coefficients in tenths, the half-life in days
ScoringConfig ==
    [alpha |-> 6, beta |-> 3, gamma |-> 1, delta |-> 0,
     a1 |-> 10, a2 |-> 8, a3 |-> 6, a4 |-> 4, a5 |-> 5, a6 |-> 2,
     half_life_days |-> 14]

\* learned weights and their terms are kept in millionths
MICRO == SCALE * SCALE

\* 1 / (1 + exp(-q / 4)) in millionths, q from -40 to 40
SigmoidKnot(q) ==
    CASE
         q = -40 -> 45
      [] q = -39 -> 58
      [] q = -38 -> 75
      [] q = -37 -> 96
      [] q = -36 -> 123
      [] q = -35 -> 158
      [] q = -34 -> 203
      [] q = -33 -> 261
      [] q = -32 -> 335
      [] q = -31 -> 431
      [] q = -30 -> 553
      [] q = -29 -> 710
      [] q = -28 -> 911
      [] q = -27 -> 1170
      [] q = -26 -> 1501
      [] q = -25 -> 1927
      [] q = -24 -> 2473
      [] q = -23 -> 3173
      [] q = -22 -> 4070
      [] q = -21 -> 5220
      [] q = -20 -> 6693
      [] q = -19 -> 8577
      [] q = -18 -> 10987
      [] q = -17 -> 14064
      [] q = -16 -> 17986
      [] q = -15 -> 22977
      [] q = -14 -> 29312
      [] q = -13 -> 37327
      [] q = -12 -> 47426
      [] q = -11 -> 60087
      [] q = -10 -> 75858
      [] q = -9 -> 95349
      [] q = -8 -> 119203
      [] q = -7 -> 148047
      [] q = -6 -> 182426
      [] q = -5 -> 222700
      [] q = -4 -> 268941
      [] q = -3 -> 320821
      [] q = -2 -> 377541
      [] q = -1 -> 437823
      [] q = 0 -> 500000
      [] q = 1 -> 562177
      [] q = 2 -> 622459
      [] q = 3 -> 679179
      [] q = 4 -> 731059
      [] q = 5 -> 777300
      [] q = 6 -> 817574
      [] q = 7 -> 851953
      [] q = 8 -> 880797
      [] q = 9 -> 904651
      [] q = 10 -> 924142
      [] q = 11 -> 939913
      [] q = 12 -> 952574
      [] q = 13 -> 962673
      [] q = 14 -> 970688
      [] q = 15 -> 977023
      [] q = 16 -> 982014
      [] q = 17 -> 985936
      [] q = 18 -> 989013
      [] q = 19 -> 991423
      [] q = 20 -> 993307
      [] q = 21 -> 994780
      [] q = 22 -> 995930
      [] q = 23 -> 996827
      [] q = 24 -> 997527
      [] q = 25 -> 998073
      [] q = 26 -> 998499
      [] q = 27 -> 998830
      [] q = 28 -> 999089
      [] q = 29 -> 999290
      [] q = 30 -> 999447
      [] q = 31 -> 999569
      [] q = 32 -> 999665
      [] q = 33 -> 999739
      [] q = 34 -> 999797
      [] q = 35 -> 999842
      [] q = 36 -> 999877
      [] q = 37 -> 999904
      [] q = 38 -> 999925
      [] q = 39 -> 999942
      [] q = 40 -> 999955

\* sigmoid(x), x in millionths: clamped to [-10, 10], then read off the
\* quarter-step values with linear interpolation in between
Sigmoid(x) ==
    LET step == MICRO \div 4
        Between(lo, hi, r) == lo + ((hi - lo) * (r \div 250)) \div SCALE
        Knots(c, q) == Between(SigmoidKnot(q), SigmoidKnot(q + 1), c - q * step)
        Clamped(c) ==
            Knots(c, IF c = 10 * MICRO THEN 39
                     ELSE (c + 10 * MICRO) \div step - 40)
    IN  Clamped(Max(-10 * MICRO, Min(10 * MICRO, x)))

\* 2 ** (-j / 8) in millionths
Pow2NegEighths(j) ==
    CASE
         j = 0 -> 1000000
      [] j = 1 -> 917004
      [] j = 2 -> 840896
      [] j = 3 -> 771105
      [] j = 4 -> 707107
      [] j = 5 -> 648420
      [] j = 6 -> 594604
      [] j = 7 -> 545254
      [] j = 8 -> 500000

\* a decay that ignores the age
DecayFlat(now_ms, ts, half_life_days) == MICRO

\* 2 ** (-max(0, now_ms - ts) / half_life_ms) in millionths
Decay(now_ms, ts, half_life_days) ==
    LET half_life_ms == half_life_days * 86400 * SCALE
        age     == Max(0, now_ms - ts)
        halves  == age \div half_life_ms
        eighth  == half_life_ms \div 8
        j       == (age % half_life_ms) \div eighth
        r       == (age % half_life_ms) % eighth
        part    == Pow2NegEighths(j)
                     - ((Pow2NegEighths(j) - Pow2NegEighths(j + 1))
                            * (r \div (eighth \div SCALE))) \div SCALE
    IN  IF halves >= 30 THEN 0 ELSE part \div (2 ^ halves)

\* the fields of a SmartMemory that calls change
SmartMemory(item_map, index) == [item_map |-> item_map, index |-> index]

\* SmartMemory.__init__: no path known, a new Memory
NewSmartMemory == SmartMemory(<<>>, EmptyIndex)

\* SmartMemory.add: the database and the SmartMemory after, and the item_id
SmartAdd(db, sm, workspace, file_path, content, concept, now) ==
    LET url == <<"f","i","l","e",":","/","/">> \o file_path
        Added(a, m) ==
            [db  |-> a.db,
             sm  |-> SmartMemory(Put(sm.item_map, file_path, a.ret), m.ix),
             ret |-> a.ret]
    IN  Added(AddItem(db, workspace, file_path, content, concept, now),
              MemoryAdd(sm.index, workspace, url, content, file_path, NULL))

\* SmartMemory.log_feedback: the database after
SmartLogFeedback(db, sm, workspace, query, file_path, useful, dwell_ms, click_rank, now) ==
    LET Logged(q) ==
            IF file_path \notin DOMAIN sm.item_map THEN q.db
            ELSE LogInteraction(q.db, q.ret, sm.item_map[file_path],
                                Feedback(useful, dwell_ms, click_rank), now)
    IN  Logged(LogQuery(db, workspace, query, EmbedOne(query), now))

\* the sum of field f over a list of rows
RECURSIVE SumField(_, _)
SumField(rows, f) ==
    IF rows = <<>> THEN 0 ELSE Head(rows)[f] + SumField(Tail(rows), f)

\* AccessTracker.get_workspace_stats; the three averages are given as the
\* sums they are taken of (the count is total_interactions)
GetWorkspaceStats(db, workspace) ==
    LET InWorkspace(r) == r.workspace = workspace
        queries  == SelectSeq(db.queries, InWorkspace)
        qids     == {queries[i].qid : i \in 1..Len(queries)}
        Joined(r) == r.qid \in qids
        inter    == SelectSeq(db.interactions, Joined)
        times    == {queries[i].issued_ts : i \in 1..Len(queries)}
    IN  [total_queries      |-> Len(queries),
         total_interactions |-> Len(inter),
         sum_useful         |-> SumField(inter, "useful"),
         sum_dwell_ms       |-> SumField(inter, "dwell_ms"),
         sum_click_rank     |-> SumField(inter, "click_rank"),
         total_items        |->
             Cardinality({id \in DOMAIN db.items :
                              db.items[id].workspace = workspace}),
         last_activity_ts   |->
             IF times = {} THEN NULL
             ELSE CHOOSE t \in times : \A u \in times : u <= t]

\* x of _learned_weight, in millionths: votes + dwell + rank - decay terms
\* (interactions not empty)
LearnedX(interactions, now_ms, config) ==
    LET IsPos(r)    == r.useful = 1
        IsNeg(r)    == r.useful = -1
        HasDwell(r) == r.dwell_ms > 0
        HasRank(r)  == r.click_rank > 0
        pos_cnt     == Len(SelectSeq(interactions, IsPos))
        neg_cnt     == Len(SelectSeq(interactions, IsNeg))
        dwells      == SelectSeq(interactions, HasDwell)
        ranks       == SelectSeq(interactions, HasRank)
        decays      == [i \in 1..Len(interactions) |->
                           [d |-> Decay(now_ms, interactions[i].ts,
                                        config.half_life_days)]]
        avg_decay   == SumField(decays, "d") \div Len(decays)
        votes_term  == (config.a1 * (pos_cnt - neg_cnt) * MICRO) \div 10
        \* a2 * (mean_dwell / 1000.0), mean_dwell in milliseconds
        dwell_term  == IF dwells = <<>> THEN 0
                       ELSE (config.a2 * 100 * SumField(dwells, "dwell_ms"))
                                \div Len(dwells)
        \* a3 * (1.0 / max(1.0, mean_rank)), mean_rank 999.0 without ranks
        rank_term   == IF ranks = <<>> THEN (config.a3 * 100 * SCALE) \div 999
                       ELSE (config.a3 * 100 * SCALE * Len(ranks))
                                \div Max(Len(ranks),
                                         SumField(ranks, "click_rank"))
        decay_term  == (config.a5 * (MICRO - avg_decay)) \div 10
    IN  votes_term + dwell_term + rank_term - decay_term

\* a _learned_weight whose sigmoid has no upper clamp: 1.0 from x = 10 on
LearnedWeightSaturating(interactions, now_ms, config) ==
    LET Unclamped(x) == IF x >= 10 * MICRO THEN MICRO ELSE Sigmoid(x)
    IN  IF interactions = <<>> THEN 0
        ELSE Unclamped(LearnedX(interactions, now_ms, config))

\* SmartMemory._learned_weight on the interactions read for the item, in
\* millionths
LearnedWeightOf(interactions, now_ms, config) ==
    IF interactions = <<>> THEN 0
    ELSE Sigmoid(LearnedX(interactions, now_ms, config))

\* SmartMemory._learned_weight
LearnedWeight(db, item_id, cluster_qids, now_ms, config) ==
    LearnedWeightOf(GetItemInteractions(db, item_id, cluster_qids), now_ms,
                    config)

\* cluster_qids of SmartMemory.query once the query is logged as qid
ClusterQids(db, workspace, query_emb, qid, use_learned) ==
    IF use_learned
    THEN Append(GetSimilarQueries(db, workspace, query_emb, 350, 10), qid)
    ELSE <<>>

\* the scoring loop of SmartMemory.query: every semantic hit with its total
\* score, in ten-millionths (S_sem is in thousandths, W_learned in millionths)
RECURSIVE ScoreHits(_, _, _, _, _, _, _)
ScoreHits(db, sm, hits, cluster_qids, use_learned, now_ms, config) ==
    IF hits = <<>> THEN <<>>
    ELSE LET hit       == Head(hits)
             file_path == hit.metadata.selector
             known     == file_path \in DOMAIN sm.item_map
             w_learned == IF use_learned /\ known /\ cluster_qids # <<>>
                          THEN LearnedWeight(db, sm.item_map[file_path],
                                             cluster_qids, now_ms, config)
                          ELSE 0
             total     == config.alpha * SCALE * hit.score
                              + config.beta * w_learned
         IN  <<[hit EXCEPT !.score = total]>>
                 \o ScoreHits(db, sm, Tail(hits), cluster_qids, use_learned,
                              now_ms, config)

\* SmartMemory.query (explain=False): the database after, the qid logged, the
\* cluster_qids used and the hits returned
SmartQuery(db, sm, workspace, query, k, use_learned, now) ==
    LET Scored(q, semantic, cluster) ==
            [db  |-> q.db, qid |-> q.ret,
             cluster |-> IF semantic = <<>> THEN <<>> ELSE cluster,
             ret |-> IF semantic = <<>> THEN <<>>
                     ELSE Take(SortByScoreDesc(
                                   ScoreHits(q.db, sm, semantic, cluster,
                                             use_learned, now, ScoringConfig)),
                               k)]
        Logged(q, query_emb) ==
            Scored(q,
                   MemorySearch(sm.index, workspace, query, k * 3,
                                NoFilters, TRUE, TRUE),
                   ClusterQids(q.db, workspace, query_emb, q.ret, use_learned))
        Embedded(query_emb) ==
            Logged(LogQuery(db, workspace, query, query_emb, now), query_emb)
    IN  Embedded(EmbedOne(query))

(***************************************************************************)
(* ConceptIndex as a state machine: insert(label) and                      *)
(* handle_promotion(label, node_id) in any order                           *)
(***************************************************************************)
\* the labels callers pass
Labels ==
    { <<"J","W","T">>,
      <<"j","w","t">>,
      <<"j","w","t"," ","a","u","t","h">>,
      <<"j","w","t"," ","a","u","t","h"," ","f","l","o","w">>,
      <<"A","u","t","h","e","n","t","i","c","a","t","i","o","n">>,
      <<"s","e","s","s","i","o","n"," ","t","o","k","e","n">> }

\* calls are made while the audit log is shorter than this
MaxEvents == 4

\* a fresh ConceptIndex, nothing called yet
ConceptStart ==
    /\ tree = NewConceptIndex.tree
    /\ treeKeys = NewConceptIndex.keys
    /\ events = NewConceptIndex.events
    /\ cret = NULL
    /\ clast = [op |-> "init"]
    /\ insRet = <<>>

\* a fresh Memory, nothing called yet
MemStart ==
    /\ idxVecs = EmptyIndex.vecs
    /\ idxMeta = EmptyIndex.meta
    /\ idxByHash = EmptyIndex.by_hash
    /\ mret = <<>>
    /\ mlast = [op |-> "init"]
    /\ madded = {}

\* no chunk_text call under way
ChunkIdle ==
    /\ chIn = <<>>
    /\ chOut = <<>>
    /\ chPc = "idle"

\* no function called on its own
PureIdle ==
    /\ fnIn = <<>>
    /\ fnOut = <<>>
    /\ fnPc = "idle"

\* the two threads that call into one ConceptIndex
Threads == {"promoter", "inserter"}

\* no thread has been started
ThreadsIdle ==
    /\ thPc = [t \in Threads |-> "idle"]
    /\ thLocal = [t \in Threads |-> <<>>]
    /\ thMixed = FALSE

Workspaces == {"w1", "w2"}

\* the SmartMemory of every workspace just constructed over an empty database
FeedbackStart ==
    /\ fbItems = NewTracker.items
    /\ fbQueries = NewTracker.queries
    /\ fbInteractions = NewTracker.interactions
    /\ fbWorkspaces = NewTracker.workspaces
    /\ smItemMap = [w \in Workspaces |-> NewSmartMemory.item_map]
    /\ smIndex = [w \in Workspaces |-> NewSmartMemory.index]
    /\ fbNow = 0
    /\ fbLast = [op |-> "init"]

ConceptInit == ConceptStart /\ MemStart /\ ChunkIdle /\ FeedbackStart /\ PureIdle /\ ThreadsIdle

\* the variables after a call that left the index as r.st and returned r.ret
ConceptResult(r) ==
    /\ tree' = r.st.tree
    /\ treeKeys' = r.st.keys
    /\ events' = r.st.events
    /\ cret' = r.ret

\* index.insert(label)
DoInsert(label) ==
    /\ Len(events) < MaxEvents
    /\ ConceptResult(Insert(CIState(tree, treeKeys, events), label, ROOT))
    /\ clast' = [op |-> "insert", label |-> label, pre |-> tree,
                 again |-> label \in DOMAIN insRet]
    /\ insRet' = IF label \in DOMAIN insRet THEN insRet
                 ELSE [l \in DOMAIN insRet \cup {label} |->
                          IF l = label THEN cret' ELSE insRet[l]]

\* index.handle_promotion(label, node_id), node_id a node of the tree
DoPromotion(label, node_id) ==
    /\ Len(events) < MaxEvents
    /\ ConceptResult(HandlePromotion(CIState(tree, treeKeys, events),
                                     label, node_id))
    /\ clast' = [op |-> "handle_promotion", label |-> label,
                 node |-> node_id, pre |-> tree]
    /\ UNCHANGED insRet

\* node ids that are no key of the tree: no label of Labels has these ids
UnknownIds == {NodeId(<<"g","o","n","e">>)}

\* index.handle_promotion(label, node_id), node_id not a node of the tree
DoPromotionUnknown(label, node_id) ==
    /\ Len(events) < MaxEvents
    /\ node_id \notin DOMAIN tree
    /\ ConceptResult(HandlePromotion(CIState(tree, treeKeys, events),
                                     label, node_id))
    /\ clast' = [op |-> "handle_promotion_unknown", label |-> label,
                 unknown |-> node_id, pre |-> tree, logged |-> events]
    /\ UNCHANGED insRet

\* index.insert(label, start_id), start_id not a node of the tree
DoInsertUnknown(label, start_id) ==
    /\ Len(events) < MaxEvents
    /\ start_id \notin DOMAIN tree
    /\ ConceptResult(Insert(CIState(tree, treeKeys, events), label, start_id))
    /\ clast' = [op |-> "insert_unknown", label |-> label,
                 unknown |-> start_id, pre |-> tree, logged |-> events]
    /\ UNCHANGED insRet

\* index.resolve_path(query_label)
DoResolvePath(query_label) ==
    /\ cret' = ResolvePath(CIState(tree, treeKeys, events), query_label)
    /\ clast' = [op |-> "resolve_path", label |-> query_label, pre |-> tree]
    /\ UNCHANGED <<tree, treeKeys, events, insRet>>

ConceptNext ==
    /\ \/ \E label \in Labels : DoInsert(label)
       \/ \E label \in Labels : \E node_id \in DOMAIN tree :
              DoPromotion(label, node_id)
       \/ \E query_label \in Labels \cup {<<>>} : DoResolvePath(query_label)
       \/ \E label \in Labels : \E node_id \in UnknownIds :
              DoPromotionUnknown(label, node_id)
       \/ \E label \in Labels : \E start_id \in UnknownIds :
              DoInsertUnknown(label, start_id)
    /\ UNCHANGED <<memVars, chunkVars, feedbackVars, pureVars, threadVars>>

ConceptSpec == ConceptInit /\ [][ConceptNext]_vars

(***************************************************************************)
(* Memory as a state machine: a Memory of charter c1 that pages are added  *)
(* to, searched and reset                                                  *)
(***************************************************************************)
MemCharter == <<"c","1">>

OtherCharter == <<"c","2">>

DefaultSelector == <<"#">>

\* the pages added: <<url, text>>.  The first two carry the same text at
\* two urls, the third is the first with its words swapped.
MemPages ==
    {<<<<"a",".","i","o","/","x">>, <<"j","w","t"," ","a","u","t","h">>>>,
     <<<<"b",".","i","o","/","x">>, <<"j","w","t"," ","a","u","t","h">>>>,
     <<<<"a",".","i","o","/","x">>, <<"a","u","t","h"," ","j","w","t">>>>,
     <<<<"b",".","i","o","/","x">>, <<"s","e","s","s","i","o","n"," ","t","o","k","e","n">>>>}

MemQueries ==
    {<<"j","w","t"," ","a","u","t","h"," ","s","e","s","s","i","o","n"," ","t","o","k","e","n">>,
     <<"J","W","T"," ","a","u","t","h">>}

\* the filter dicts given to search
MemFilters ==
    {NoFilters,
     "allowed_domains" :> <<<<"a",".","i","o","/","*">>>>,
     "url_prefixes" :> <<<<"b",".","i","o","/">>>>,
     "charter_id" :> OtherCharter}

\* the largest k asked for
MaxK == 2

\* the index holds at most this many entries
MaxEntries == 3

MemIndex == IndexState(idxVecs, idxMeta, idxByHash)

SetIndex(ix) ==
    /\ idxVecs' = ix.vecs
    /\ idxMeta' = ix.meta
    /\ idxByHash' = ix.by_hash

\* memory.add(url, text), while the index stays within max_entries
AddPage(url, text, max_entries) ==
    LET Added(r) ==
            /\ Len(r.ix.vecs) <= max_entries
            /\ SetIndex(r.ix)
            /\ mret' = r.ret
    IN  /\ Added(MemoryAdd(MemIndex, MemCharter, url, text, DefaultSelector,
                           NULL))
        /\ mlast' = [op |-> "add", url |-> url, text |-> text,
                     size |-> Len(idxVecs),
                     again |-> <<url, text>> \in madded,
                     after_reset |-> /\ mlast.op = "reset"
                                     /\ <<url, text>> \in mlast.before]
        /\ madded' = madded \cup {<<url, text>>}

DoAdd(url, text) == AddPage(url, text, MaxEntries)

\* memory.search(query, k, filters, filter_allowed, mmr=mmr)
DoSearch(query, k, filters, filter_allowed, mmr) ==
    /\ mret' = MemorySearch(MemIndex, MemCharter, query, k, filters,
                            filter_allowed, mmr)
    /\ mlast' = [op |-> "search", query |-> query, k |-> k,
                 filters |-> filters, filter_allowed |-> filter_allowed,
                 mmr |-> mmr]
    /\ UNCHANGED <<idxVecs, idxMeta, idxByHash, madded>>

\* memory.reset()
DoReset ==
    /\ SetIndex(MemoryReset(MemIndex))
    /\ mret' = NULL
    /\ mlast' = [op |-> "reset", before |-> madded]
    /\ madded' = {}

MemInit == ConceptStart /\ MemStart /\ ChunkIdle /\ FeedbackStart /\ PureIdle /\ ThreadsIdle

MemNext ==
    /\ \/ \E page \in MemPages : DoAdd(page[1], page[2])
       \/ \E query \in MemQueries : \E k \in 0..MaxK :
          \E filters \in MemFilters : \E mmr \in BOOLEAN :
              DoSearch(query, k, filters, TRUE, mmr)
       \/ \E query \in MemQueries : \E k \in 0..MaxK : \E mmr \in BOOLEAN :
              DoSearch(query, k, NoFilters, FALSE, mmr)
       \/ DoReset
    /\ UNCHANGED <<conceptVars, chunkVars, feedbackVars, pureVars, threadVars>>

MemorySpec == MemInit /\ [][MemNext]_vars

(***************************************************************************)
(* A bulk ingest: the pages of a corpus are added in order, one single-    *)
(* word page each, with searches in between                                *)
(***************************************************************************)
\* the number of pages of the corpus
BulkPages == 25

BulkWords ==
    <<"a","b","c","d","e","f","g","h","i","j","k","l","m",
      "n","o","p","q","r","s","t","u","v","w","x","y","z">>

BulkQueries == {<<"a">>, <<"y">>, <<"a"," ","b"," ","y">>}

\* add the next page of the corpus
BulkAdd ==
    /\ Len(idxVecs) < Min(BulkPages, Len(BulkWords))
    /\ LET word == BulkWords[Len(idxVecs) + 1]
       IN  AddPage(<<"a",".","i","o","/",word>>, <<word>>, BulkPages)

BulkNext ==
    /\ \/ BulkAdd
       \/ \E query \in BulkQueries : \E k \in {1, TOPN, BulkPages} :
          \E mmr \in BOOLEAN :
              DoSearch(query, k, NoFilters, TRUE, mmr)
    /\ UNCHANGED <<conceptVars, chunkVars, feedbackVars, pureVars, threadVars>>

MemoryBulkSpec == MemInit /\ [][BulkNext]_vars

(***************************************************************************)
(* chunk_text applied to every text of up to MaxTokens words, window and   *)
(* overlap                                                                 *)
(***************************************************************************)
\* the most tokens of a text
MaxTokens == 6

\* the widest window
MaxWindow == 4

\* a text of n words, the words gap blanks apart; with a gap over one blank
\* the text also starts and ends with a blank
RECURSIVE Blanks(_)
Blanks(gap) == IF gap = 0 THEN <<>> ELSE <<" ">> \o Blanks(gap - 1)

RECURSIVE WordsApart(_, _)
WordsApart(n, gap) ==
    IF n = 0 THEN <<>>
    ELSE IF n = 1 THEN <<BulkWords[1]>>
    ELSE WordsApart(n - 1, gap) \o Blanks(gap) \o <<BulkWords[n]>>

TextOfWords(n, gap) ==
    IF gap = 1 THEN WordsApart(n, gap)
    ELSE <<" ">> \o WordsApart(n, gap) \o <<" ">>

\* the calls chunk_text(charter, url, selector, text, None, size, overlap)
ChunkInputs ==
    {[n |-> n, text |-> TextOfWords(n, gap), size |-> size,
      overlap |-> overlap] :
        n \in 0..MaxTokens, gap \in 1..2,
        size \in 1..MaxWindow, overlap \in 0..(MaxWindow - 1)}

ChunkInit ==
    /\ ConceptStart
    /\ MemStart
    /\ FeedbackStart
    /\ PureIdle
    /\ ThreadsIdle
    /\ chIn \in {c \in ChunkInputs : c.overlap < c.size}
    /\ chOut = <<>>
    /\ chPc = "ready"

\* chunk_text(...)
DoChunk ==
    /\ chPc = "ready"
    /\ chOut' = ChunkText(MemCharter, <<"a",".","i","o","/","x">>,
                          DefaultSelector, chIn.text, NULL, chIn.size,
                          chIn.overlap)
    /\ chPc' = "done"
    /\ UNCHANGED chIn

ChunkNext == DoChunk /\ UNCHANGED <<conceptVars, memVars, feedbackVars, pureVars, threadVars>>

ChunkSpec == ChunkInit /\ [][ChunkNext]_vars

(***************************************************************************)
(* The SmartMemory of two workspaces over one database, as a state machine *)
(***************************************************************************)
\* the files added: <<file_path, content>>
Files ==
    {<<<<"a","u","t","h","/","j","w","t",".","p","y">>, <<"j","w","t"," ","a","u","t","h">>>>}

\* the paths feedback is given on: the file added, and one never added
FilePaths == {f[1] : f \in Files} \cup {<<"m","o","d","e","l","s","/","u","s","e","r",".","p","y">>}

FbQueries == {<<"J","W","T"," ","a","u","t","h">>}

\* useful, dwell_ms and click_rank of a feedback call
Signals == {Feedback(1, 0, 0), Feedback(-1, 1500, 1)}

\* the clock stops here
MaxClock == 1

\* the calls of log_feedback stop once this many interactions are stored
MaxInteractions == 2

FbTracker == Tracker(fbItems, fbQueries, fbInteractions, fbWorkspaces)

SetTracker(db) ==
    /\ fbItems' = db.items
    /\ fbQueries' = db.queries
    /\ fbInteractions' = db.interactions
    /\ fbWorkspaces' = db.workspaces

\* memory.add(file_path, content) on the SmartMemory of workspace w
SmAdd(w, file_path, content) ==
    LET Added(r) ==
            /\ SetTracker(r.db)
            /\ smItemMap' = [smItemMap EXCEPT ![w] = r.sm.item_map]
            /\ smIndex' = [smIndex EXCEPT ![w] = r.sm.index]
    IN  /\ Added(SmartAdd(FbTracker, SmartMemory(smItemMap[w], smIndex[w]), w,
                          file_path, content, NULL, fbNow))
        /\ fbLast' = [op |-> "add", workspace |-> w, file_path |-> file_path,
                      pre |-> fbInteractions]
        /\ UNCHANGED fbNow

\* memory.log_feedback(query, file_path, useful, dwell_ms, click_rank) on the
\* SmartMemory of workspace w
SmLogFeedback(w, query, file_path, fb) ==
    /\ Len(fbInteractions) < MaxInteractions
    /\ SetTracker(SmartLogFeedback(FbTracker,
                                   SmartMemory(smItemMap[w], smIndex[w]), w,
                                   query, file_path, fb.useful, fb.dwell_ms,
                                   fb.click_rank, fbNow))
    /\ fbLast' = [op |-> "log_feedback", workspace |-> w,
                  file_path |-> file_path, pre |-> fbInteractions]
    /\ UNCHANGED <<smItemMap, smIndex, fbNow>>

\* the k every query call is given
QueryK == 1

\* memory.query(query, k, use_learned) on the SmartMemory of workspace w
SmQuery(w, query, k, use_learned) ==
    LET Returned(r) ==
            /\ SetTracker(r.db)
            /\ fbLast' = [op |-> "query", workspace |-> w, query |-> query,
                          use_learned |-> use_learned, qid |-> r.qid,
                          cluster |-> r.cluster, ret |-> r.ret,
                          pre |-> fbInteractions, preq |-> fbQueries]
    IN  /\ Returned(SmartQuery(FbTracker,
                               SmartMemory(smItemMap[w], smIndex[w]), w,
                               query, k, use_learned, fbNow))
        /\ UNCHANGED <<smItemMap, smIndex, fbNow>>

\* the process of workspace w starts again: SmartMemory(w) is constructed
\* over the database as it is
SmOpen(w) ==
    /\ smItemMap' = [smItemMap EXCEPT ![w] = NewSmartMemory.item_map]
    /\ smIndex' = [smIndex EXCEPT ![w] = NewSmartMemory.index]
    /\ fbLast' = [op |-> "open", workspace |-> w, pre |-> fbInteractions]
    /\ UNCHANGED <<fbItems, fbQueries, fbInteractions, fbWorkspaces, fbNow>>

\* a millisecond passes
Tick ==
    /\ fbNow < MaxClock
    /\ fbNow' = fbNow + 1
    /\ fbLast' = [op |-> "tick", pre |-> fbInteractions]
    /\ UNCHANGED <<fbItems, fbQueries, fbInteractions, fbWorkspaces,
                   smItemMap, smIndex>>

FeedbackInit == ConceptStart /\ MemStart /\ ChunkIdle /\ FeedbackStart /\ PureIdle /\ ThreadsIdle

FeedbackNext ==
    /\ \/ \E w \in Workspaces : \E f \in Files : SmAdd(w, f[1], f[2])
       \/ \E w \in Workspaces : \E query \in FbQueries :
          \E file_path \in FilePaths : \E fb \in Signals :
              SmLogFeedback(w, query, file_path, fb)
       \/ \E w \in Workspaces : \E query \in FbQueries :
          \E use_learned \in BOOLEAN : SmQuery(w, query, QueryK, use_learned)
       \/ \E w \in Workspaces : SmOpen(w)
       \/ Tick
    /\ UNCHANGED <<conceptVars, memVars, chunkVars, pureVars, threadVars>>

FeedbackSpec == FeedbackInit /\ [][FeedbackNext]_vars

(***************************************************************************)
(* One SmartMemory used call after call: every call reads the clock, which *)
(* has advanced by Delays milliseconds since the call before               *)
(***************************************************************************)
ClusterWorkspace == "w1"

\* the clock of this session stops here
MaxClusterClock == 11

\* the interactions of this session
MaxClusterInteractions == 1

\* milliseconds between one call and the next
Delays == {0, 1}

ClusterFile == CHOOSE f \in Files : TRUE

ClusterQuery == CHOOSE query \in FbQueries : TRUE

ClusterMemory ==
    SmartMemory(smItemMap[ClusterWorkspace], smIndex[ClusterWorkspace])

\* memory.add(file_path, content), once
ClAdd(dt) ==
    LET Added(r) ==
            /\ SetTracker(r.db)
            /\ smItemMap' = [smItemMap EXCEPT ![ClusterWorkspace] = r.sm.item_map]
            /\ smIndex' = [smIndex EXCEPT ![ClusterWorkspace] = r.sm.index]
    IN  /\ fbNow + dt <= MaxClusterClock
        /\ ClusterFile[1] \notin DOMAIN smItemMap[ClusterWorkspace]
        /\ Added(SmartAdd(FbTracker, ClusterMemory, ClusterWorkspace,
                          ClusterFile[1], ClusterFile[2], NULL, fbNow + dt))
        /\ fbNow' = fbNow + dt
        /\ fbLast' = [op |-> "add", workspace |-> ClusterWorkspace,
                      file_path |-> ClusterFile[1], pre |-> fbInteractions]

\* memory.query(query, k, use_learned)
ClQuery(use_learned, dt) ==
    LET Returned(r) ==
            /\ SetTracker(r.db)
            /\ fbLast' = [op |-> "query", workspace |-> ClusterWorkspace,
                          query |-> ClusterQuery, use_learned |-> use_learned,
                          qid |-> r.qid, cluster |-> r.cluster, ret |-> r.ret,
                          pre |-> fbInteractions, preq |-> fbQueries]
    IN  /\ fbNow + dt <= MaxClusterClock
        /\ Returned(SmartQuery(FbTracker, ClusterMemory, ClusterWorkspace,
                               ClusterQuery, QueryK, use_learned, fbNow + dt))
        /\ fbNow' = fbNow + dt
        /\ UNCHANGED <<smItemMap, smIndex>>

\* memory.log_feedback(query, file_path, useful, dwell_ms, click_rank)
ClLogFeedback(fb, dt) ==
    /\ fbNow + dt <= MaxClusterClock
    /\ Len(fbInteractions) < MaxClusterInteractions
    /\ SetTracker(SmartLogFeedback(FbTracker, ClusterMemory, ClusterWorkspace,
                                   ClusterQuery, ClusterFile[1], fb.useful,
                                   fb.dwell_ms, fb.click_rank, fbNow + dt))
    /\ fbNow' = fbNow + dt
    /\ fbLast' = [op |-> "log_feedback", workspace |-> ClusterWorkspace,
                  file_path |-> ClusterFile[1], pre |-> fbInteractions]
    /\ UNCHANGED <<smItemMap, smIndex>>

ClusterInit == ConceptStart /\ MemStart /\ ChunkIdle /\ FeedbackStart /\ PureIdle /\ ThreadsIdle

ClusterNext ==
    /\ \/ \E dt \in Delays : ClAdd(dt)
       \/ \E use_learned \in BOOLEAN : \E dt \in Delays :
              ClQuery(use_learned, dt)
       \/ \E fb \in Signals : \E dt \in Delays : ClLogFeedback(fb, dt)
    /\ UNCHANGED <<conceptVars, memVars, chunkVars, pureVars, threadVars>>

ClusterSpec == ClusterInit /\ [][ClusterNext]_vars

(***************************************************************************)
(* _learned_weight on a list of interactions, before and after one more    *)
(***************************************************************************)
\* the interactions of a history
MaxHistory == 2

\* useful, dwell_ms and click_rank of the interactions weighed
LearnSignals ==
    {Feedback(u, d, r) : u \in {1, -1}, d \in {0, 1, 10 * SCALE},
                         r \in {0, 1, 3}}

\* the row get_item_interactions returns for a signal logged at ts
InteractionRow(fb, ts) ==
    [useful |-> fb.useful, dwell_ms |-> fb.dwell_ms,
     click_rank |-> fb.click_rank, ts |-> ts]

\* all lists of at most n rows logged at time 0
RECURSIVE Histories(_)
Histories(n) ==
    IF n = 0 THEN {<<>>}
    ELSE Histories(n - 1) \cup
         {Append(h, InteractionRow(fb, 0)) :
              h \in {g \in Histories(n - 1) : Len(g) = n - 1},
              fb \in LearnSignals}

\* now_ms: at once, and one half-life later
LearnTimes == {0, ScoringConfig.half_life_days * 86400 * SCALE}

LearnInit ==
    /\ ConceptStart
    /\ MemStart
    /\ ChunkIdle
    /\ FeedbackStart
    /\ ThreadsIdle
    /\ fnIn \in [op : {"learned_weight"}, history : Histories(MaxHistory),
                 fb : LearnSignals, now_ms : LearnTimes]
    /\ fnOut = <<>>
    /\ fnPc = "ready"

\* _learned_weight over the history, and over the history with one more
\* interaction logged at now_ms
DoLearnedWeight ==
    /\ fnPc = "ready"
    /\ fnIn.op = "learned_weight"
    /\ fnOut' = [before |-> LearnedWeightOf(fnIn.history, fnIn.now_ms,
                                            ScoringConfig),
                 after  |-> LearnedWeightOf(
                                Append(fnIn.history,
                                       InteractionRow(fnIn.fb, fnIn.now_ms)),
                                fnIn.now_ms, ScoringConfig)]
    /\ fnPc' = "done"
    /\ UNCHANGED fnIn

LearnNext ==
    DoLearnedWeight
        /\ UNCHANGED <<conceptVars, memVars, chunkVars, feedbackVars,
                       threadVars>>

LearnSpec == LearnInit /\ [][LearnNext]_vars

(***************************************************************************)
(* Ranking before and after feedback: one SmartMemory with two files       *)
(***************************************************************************)
RankWorkspace == "w1"

\* items A and B: <<file_path, content>>
RankFileA ==
    <<<<"a","u","t","h","/","j","w","t",".","p","y">>, <<"j","w","t"," ","a","u","t","h">>>>

RankFileB ==
    <<<<"a","u","t","h","/","s","e","s","s","i","o","n",".","p","y">>, <<"a","u","t","h"," ","s","e","s","s","i","o","n">>>>

RankFiles == {RankFileA, RankFileB}

RankQuery == <<"J","W","T"," ","a","u","t","h">>

\* log_feedback(query, file_path, +1) and log_feedback(query, file_path, -1)
RankSignals == {Feedback(1, 0, 0), Feedback(-1, 0, 0)}

\* both items are asked for
RankK == 2

\* the clock of this session stops here
MaxRankClock == 2

\* the interactions of this session
MaxRankInteractions == 2

RankMemory == SmartMemory(smItemMap[RankWorkspace], smIndex[RankWorkspace])

\* file path -> score of the hits returned
ScoreOf(hits) ==
    [path \in {hits[i].metadata.selector : i \in 1..Len(hits)} |->
        LET i == CHOOSE j \in 1..Len(hits) : hits[j].metadata.selector = path
        IN  hits[i].score]

\* the scores of the last use_learned = false query and the feedback logged
\* since, carried from call to call
RankBase == IF "base" \in DOMAIN fbLast THEN fbLast.base ELSE NULL

RankSince == IF "since" \in DOMAIN fbLast THEN fbLast.since ELSE {}

\* memory.add(file_path, content), once for a file
RkAdd(f, dt) ==
    LET Added(r) ==
            /\ SetTracker(r.db)
            /\ smItemMap' = [smItemMap EXCEPT ![RankWorkspace] = r.sm.item_map]
            /\ smIndex' = [smIndex EXCEPT ![RankWorkspace] = r.sm.index]
    IN  /\ fbNow + dt <= MaxRankClock
        /\ f[1] \notin DOMAIN smItemMap[RankWorkspace]
        /\ Added(SmartAdd(FbTracker, RankMemory, RankWorkspace, f[1], f[2],
                          NULL, fbNow + dt))
        /\ fbNow' = fbNow + dt
        /\ fbLast' = [op |-> "add", workspace |-> RankWorkspace,
                      file_path |-> f[1], pre |-> fbInteractions,
                      base |-> NULL, since |-> {}]

\* memory.query(query, k, use_learned)
RkQuery(use_learned, dt) ==
    LET Returned(r) ==
            /\ SetTracker(r.db)
            /\ fbLast' = [op |-> "query", workspace |-> RankWorkspace,
                          query |-> RankQuery, use_learned |-> use_learned,
                          qid |-> r.qid, cluster |-> r.cluster, ret |-> r.ret,
                          pre |-> fbInteractions, preq |-> fbQueries,
                          base |-> IF use_learned THEN RankBase
                                   ELSE ScoreOf(r.ret),
                          since |-> IF use_learned THEN RankSince ELSE {}]
    IN  /\ fbNow + dt <= MaxRankClock
        /\ Returned(SmartQuery(FbTracker, RankMemory, RankWorkspace, RankQuery,
                               RankK, use_learned, fbNow + dt))
        /\ fbNow' = fbNow + dt
        /\ UNCHANGED <<smItemMap, smIndex>>

\* memory.log_feedback(query, file_path, useful)
RkLogFeedback(file_path, fb, dt) ==
    /\ fbNow + dt <= MaxRankClock
    /\ Len(fbInteractions) < MaxRankInteractions
    /\ SetTracker(SmartLogFeedback(FbTracker, RankMemory, RankWorkspace,
                                   RankQuery, file_path, fb.useful,
                                   fb.dwell_ms, fb.click_rank, fbNow + dt))
    /\ fbNow' = fbNow + dt
    /\ fbLast' = [op |-> "log_feedback", workspace |-> RankWorkspace,
                  file_path |-> file_path, pre |-> fbInteractions,
                  base |-> RankBase,
                  since |-> RankSince \cup {<<file_path, fb.useful>>}]
    /\ UNCHANGED <<smItemMap, smIndex>>

RankInit == ConceptStart /\ MemStart /\ ChunkIdle /\ FeedbackStart /\ PureIdle /\ ThreadsIdle

RankNext ==
    /\ \/ \E f \in RankFiles : \E dt \in Delays : RkAdd(f, dt)
       \/ \E use_learned \in BOOLEAN : \E dt \in Delays :
              RkQuery(use_learned, dt)
       \/ \E f \in RankFiles : \E fb \in RankSignals : \E dt \in Delays :
              RkLogFeedback(f[1], fb, dt)
    /\ UNCHANGED <<conceptVars, memVars, chunkVars, pureVars, threadVars>>

RankSpec == RankInit /\ [][RankNext]_vars

(***************************************************************************)
(* Two threads in one ConceptIndex with no lock: handle_promotion(label,   *)
(* N) and insert(label) run statement by statement in any interleaving.   *)
(* A thread is switched between statements; one call of _adopt_child,      *)
(* _drop_child or _event, the lookup and comparisons of one insert frame,  *)
(* and the branch of _ensure_node for a node that exists are taken as one  *)
(* step each.                                                              *)
(***************************************************************************)
\* the node N that is promoted: the tree starts as insert(RaceBase) left it
RaceBase == <<"j","w","t"," ","a","u","t","h">>

RaceStart == Insert(NewConceptIndex, RaceBase, ROOT).st

\* the label both threads are called with.  A label that insert attaches
\* below N is left out: promoted above N afterwards, it ends in a cycle with
\* N whether or not the calls overlap.
RaceLabels ==
    LET BelowBase(r) ==
            r.ret \in SeqToSet(r.st.tree[NodeId(RaceBase)].children)
    IN  {l \in Labels \ {RaceBase} : ~BelowBase(Insert(RaceStart, l, ROOT))}

RaceIndex == CIState(tree, treeKeys, events)

SetRaceIndex(st) ==
    /\ tree' = st.tree
    /\ treeKeys' = st.keys
    /\ events' = st.events

\* thread t goes on at statement pc with its locals set to loc; the step is
\* inside the other thread's call when that thread is between its first
\* statement and its return
Goto(t, pc, loc) ==
    /\ thPc' = [thPc EXCEPT ![t] = pc]
    /\ thLocal' = [thLocal EXCEPT ![t] = loc]
    /\ thMixed' = (thMixed \/ \E u \in Threads \ {t} :
                                  thPc[u] \notin {"call", "done"})
    /\ UNCHANGED <<cret, clast, insRet>>

\* where _ensure_node returns to
AfterEnsure(loc) == IF loc.after = "insert" THEN "done" ELSE "hp_adopt"

\* the call is entered
ThCall(t) ==
    /\ thPc[t] = "call"
    /\ Goto(t, IF thLocal[t].op = "insert" THEN "visit" ELSE "hp_read",
            thLocal[t])
    /\ UNCHANGED <<tree, treeKeys, events>>

\* insert(concept, start_id) down to its recursive call, to _ensure_node or
\* to handle_promotion
ThVisit(t) ==
    LET loc      == thLocal[t]
        start    == tree[loc.node]
        decision == CompareGenerality(loc.concept, start.label)
        k        == FirstRelatedChild(RaceIndex, loc.concept, loc.node)
    IN  /\ thPc[t] = "visit"
        /\ IF decision = "same_level"
           THEN Goto(t, "done",
                     [loc EXCEPT !.ret = IF start.parent_id # NULL
                                         THEN start.parent_id ELSE start.id])
           ELSE IF decision = "more_specific"
           THEN IF k # 0
                THEN Goto(t, "visit", [loc EXCEPT !.node = start.children[k]])
                ELSE Goto(t, "en_check",
                          [loc EXCEPT !.parent_id = start.id,
                                      !.after = "insert"])
           ELSE Goto(t, "hp_read", loc)
        /\ UNCHANGED <<tree, treeKeys, events>>

\* handle_promotion: node = self.tree[node_id]; parent_id = node.parent_id
ThHpRead(t) ==
    /\ thPc[t] = "hp_read"
    /\ Goto(t, "en_check",
            [thLocal[t] EXCEPT !.parent_id = tree[thLocal[t].node].parent_id,
                               !.after = "handle_promotion"])
    /\ UNCHANGED <<tree, treeKeys, events>>

\* _ensure_node: nid = _node_id(label); if nid in self.tree: ... return nid
ThEnCheck(t) ==
    LET loc == thLocal[t]
        nid == NodeId(loc.concept)
    IN  /\ thPc[t] = "en_check"
        /\ IF nid \in DOMAIN tree
           THEN /\ SetRaceIndex(EnsureNode(RaceIndex, loc.concept,
                                           loc.parent_id).st)
                /\ Goto(t, AfterEnsure(loc),
                        [loc EXCEPT !.nid = nid, !.ret = nid])
           ELSE /\ Goto(t, "en_put", [loc EXCEPT !.nid = nid])
                /\ UNCHANGED <<tree, treeKeys, events>>

\* _ensure_node: node = Node(...); self.tree[nid] = node
ThEnPut(t) ==
    LET loc == thLocal[t]
    IN  /\ thPc[t] = "en_put"
        /\ SetRaceIndex(PutNode(RaceIndex, loc.nid,
               Node(loc.nid, loc.concept, loc.parent_id, "tentative")))
        /\ Goto(t, IF loc.parent_id # NULL THEN "en_adopt" ELSE "en_event",
                loc)

\* _ensure_node: self._adopt_child(parent_id, nid)
ThEnAdopt(t) ==
    /\ thPc[t] = "en_adopt"
    /\ SetRaceIndex(AdoptChild(RaceIndex, thLocal[t].parent_id,
                               thLocal[t].nid))
    /\ Goto(t, "en_event", thLocal[t])

\* _ensure_node: self._event("insert", ...); return nid
ThEnEvent(t) ==
    /\ thPc[t] = "en_event"
    /\ SetRaceIndex(Event(RaceIndex, "insert", <<>>, thLocal[t].nid,
                          "attach"))
    /\ Goto(t, AfterEnsure(thLocal[t]),
            [thLocal[t] EXCEPT !.ret = thLocal[t].nid])

\* handle_promotion: self._adopt_child(new_id, node_id)
ThHpAdopt(t) ==
    /\ thPc[t] = "hp_adopt"
    /\ SetRaceIndex(AdoptChild(RaceIndex, thLocal[t].nid, thLocal[t].node))
    /\ Goto(t, IF thLocal[t].parent_id # NULL THEN "hp_drop" ELSE "hp_event",
            thLocal[t])

\* handle_promotion: self._drop_child(parent_id, node_id)
ThHpDrop(t) ==
    /\ thPc[t] = "hp_drop"
    /\ SetRaceIndex(DropChild(RaceIndex, thLocal[t].parent_id,
                              thLocal[t].node))
    /\ Goto(t, "hp_adopt_parent", thLocal[t])

\* handle_promotion: self._adopt_child(parent_id, new_id)
ThHpAdoptParent(t) ==
    /\ thPc[t] = "hp_adopt_parent"
    /\ SetRaceIndex(AdoptChild(RaceIndex, thLocal[t].parent_id,
                               thLocal[t].nid))
    /\ Goto(t, "hp_event", thLocal[t])

\* handle_promotion: self._event("promotion", ...); return new_id
ThHpEvent(t) ==
    /\ thPc[t] = "hp_event"
    /\ SetRaceIndex(Event(RaceIndex, "promotion", thLocal[t].node,
                          thLocal[t].nid, "more_general"))
    /\ Goto(t, "done", [thLocal[t] EXCEPT !.ret = thLocal[t].nid])

\* the arguments of a call, its locals not yet set
ThreadCall(op, concept, node) ==
    [op |-> op, concept |-> concept, node |-> node, parent_id |-> NULL,
     nid |-> NULL, after |-> NULL, ret |-> NULL]

\* one thread calls handle_promotion(label, N), the other insert(label) of
\* the same label
RaceInit ==
    /\ tree = RaceStart.tree
    /\ treeKeys = RaceStart.keys
    /\ events = RaceStart.events
    /\ cret = NULL
    /\ clast = [op |-> "init"]
    /\ insRet = <<>>
    /\ MemStart
    /\ ChunkIdle
    /\ FeedbackStart
    /\ PureIdle
    /\ thPc = [t \in Threads |-> "call"]
    /\ \E label \in RaceLabels :
           thLocal = [t \in Threads |->
                         IF t = "promoter"
                         THEN ThreadCall("handle_promotion", label,
                                         NodeId(RaceBase))
                         ELSE ThreadCall("insert", label, ROOT)]
    /\ thMixed = FALSE

RaceNext ==
    /\ \E t \in Threads :
           \/ ThCall(t)
           \/ ThVisit(t)
           \/ ThHpRead(t)
           \/ ThEnCheck(t)
           \/ ThEnPut(t)
           \/ ThEnAdopt(t)
           \/ ThEnEvent(t)
           \/ ThHpAdopt(t)
           \/ ThHpDrop(t)
           \/ ThHpAdoptParent(t)
           \/ ThHpEvent(t)
    /\ UNCHANGED <<memVars, chunkVars, feedbackVars, pureVars>>

RaceSpec == RaceInit /\ [][RaceNext]_vars

(***************************************************************************)
(* Properties of the concept hierarchy                                     *)
(***************************************************************************)
ChildSet(t, n) == SeqToSet(t[n].children)

\* the nodes whose parent pointer is null
ParentlessNodes(t) == {n \in DOMAIN t : t[n].parent_id = NULL}

\* the nodes whose child list holds n
Holders(t, n) == {p \in DOMAIN t : n \in ChildSet(t, p)}

\* the node reached from n by k parent steps (NULL once the chain has ended)
RECURSIVE Ancestor(_, _, _)
Ancestor(t, n, k) ==
    IF k = 0 \/ n = NULL \/ n \notin DOMAIN t THEN n
    ELSE Ancestor(t, t[n].parent_id, k - 1)

\* the nodes reachable from the nodes of S through child lists
RECURSIVE Descendants(_, _)
Descendants(t, S) ==
    LET next == S \cup UNION {ChildSet(t, n) \cap DOMAIN t : n \in S}
    IN  IF next = S THEN S ELSE Descendants(t, next)

\* C1: after any sequence of insert and handle_promotion calls exactly one
\* node of the tree has a null parent pointer.
C1_ExactlyOneRoot == Cardinality(ParentlessNodes(tree)) = 1

\* C2: every node with a parent has a parent pointer that names a node whose
\* child list contains it, and it appears in exactly one child list.
C2_ParentMatchesChildList ==
    \A n \in DOMAIN tree :
        tree[n].parent_id # NULL =>
            /\ tree[n].parent_id \in DOMAIN tree
            /\ n \in ChildSet(tree, tree[n].parent_id)
            /\ Cardinality(Holders(tree, n)) = 1

\* C3: the hierarchy is acyclic: from every node the parent pointers end
\* after finitely many steps, and no node is reachable from itself through
\* child lists.
C3_Acyclic ==
    \A n \in DOMAIN tree :
        /\ Ancestor(tree, n, Cardinality(DOMAIN tree)) = NULL
        /\ n \notin Descendants(tree, ChildSet(tree, n))

\* C4: insert(L) of a label that was inserted before leaves the node set,
\* every parent pointer and every child list as they were and returns what
\* the first insert(L) returned.
C4_ReinsertIsNoOp ==
    (clast.op = "insert" /\ clast.again) =>
        /\ tree = clast.pre
        /\ cret = insRet[clast.label]

\* C5: after handle_promotion(label, N) on a node N whose parent was P, the
\* node for label has parent P, N's parent pointer is the node for label, N
\* is in that node's child list, and P's child list holds the node for label
\* and no longer N.
C5_PromotionRewires ==
    (clast.op = "handle_promotion" /\ clast.pre[clast.node].parent_id # NULL) =>
        LET N == clast.node
            P == clast.pre[N].parent_id
        IN  /\ tree[cret].parent_id = P
            /\ tree[N].parent_id = cret
            /\ N \in ChildSet(tree, cret)
            /\ cret \in ChildSet(tree, P)
            /\ N \notin ChildSet(tree, P)


\* C6: ingestion is idempotent: an add() of a (source, text) pair that was
\* added before leaves the number of index entries as it was.
C6_AddIsIdempotent ==
    (mlast.op = "add" /\ mlast.again) => Len(idxVecs) = mlast.size

\* a repeated add() into an index that also holds another text
C6_RepeatedAdd ==
    mlast.op = "add" /\ mlast.again /\ Len(idxVecs) = 2

\* C7: chunk coverage: for a text of N >= 1 tokens, window W and overlap
\* O < W, the chunks' ranges start at 0, end at N, leave no gap (each chunk
\* starts at or before the end of the one before), and every chunk but the
\* last has exactly W tokens.
C7_ChunkCoverage ==
    (chPc = "done" /\ chIn.n >= 1) =>
        /\ Len(chOut) >= 1
        /\ chOut[1].start_idx = 0
        /\ chOut[Len(chOut)].end_idx = chIn.n
        /\ \A i \in 2..Len(chOut) : chOut[i].start_idx <= chOut[i - 1].end_idx
        /\ \A i \in 1..(Len(chOut) - 1) :
               /\ chOut[i].tokens = chIn.size
               /\ chOut[i].end_idx - chOut[i].start_idx = chIn.size
               /\ Len(SplitTokens(chOut[i].text)) = chIn.size

\* a text cut into three or more overlapping chunks
C7_ManyChunks ==
    chPc = "done" /\ Len(chOut) >= 3 /\ chIn.overlap >= 1

\* the filter dict the last search handed to knn
LastFilters == SearchFilters(MemCharter, mlast.filters, mlast.filter_allowed)

\* the cosine of index entry i to the query of the last search
LastRel(i) == Cosine(EmbedOne(mlast.query), idxVecs[i])

\* entry i is among the hits of the last search
Returned(i) == \E h \in 1..Len(mret) : mret[h].metadata = idxMeta[i]

\* C8: kNN correctness: with MMR disabled, search(query, k) returns the k
\* entries matching the filters with the highest cosine to the query (all
\* matching entries when fewer than k match), in non-increasing score order.
C8_KnnCorrect ==
    (mlast.op = "search" /\ ~mlast.mmr) =>
        LET match == Matching(MemIndex, LastFilters)
        IN  /\ Len(mret) = Min(mlast.k, Cardinality(match))
            /\ \A h \in 1..Len(mret) :
                   \E i \in match : /\ mret[h].metadata = idxMeta[i]
                                    /\ mret[h].score = LastRel(i)
            /\ \A g, h \in 1..Len(mret) :
                   g < h => /\ mret[g].score >= mret[h].score
                            /\ mret[g].metadata # mret[h].metadata
            /\ \A i \in match :
                   ~Returned(i) =>
                       \A h \in 1..Len(mret) : mret[h].score >= LastRel(i)

\* cosine from which two entries count as near-duplicates (0.9), from which
\* an entry counts as highly relevant (0.5), up to which two entries count as
\* distinct (0.5), and the most a sufficiently relevant entry may trail the
\* most relevant one (0.15), in thousandths
NearDuplicate == 9 * 100

HighRelevance == 5 * 100

DistinctUpTo == 5 * 100

SufficientGap == 15 * 10

\* d1, d2 are near-duplicates, both highly relevant to the query of the last
\* search, and x is distinct from both and sufficiently relevant
DiversityCase(d1, d2, x) ==
    LET Sim(i, j) == Cosine(idxVecs[i], idxVecs[j])
    IN  /\ d1 # d2 /\ x # d1 /\ x # d2
        /\ Sim(d1, d2) >= NearDuplicate
        /\ LastRel(d1) >= HighRelevance
        /\ LastRel(d2) >= HighRelevance
        /\ Sim(x, d1) <= DistinctUpTo
        /\ Sim(x, d2) <= DistinctUpTo
        /\ LastRel(x) >= Max(LastRel(d1), LastRel(d2)) - SufficientGap

\* the last call was search(query, k=2, mmr=True) over exactly three
\* candidates
MmrOverThree ==
    /\ mlast.op = "search" /\ mlast.mmr /\ mlast.k = 2
    /\ Cardinality(Matching(MemIndex, LastFilters)) = 3

\* C9: MMR diversity: when the candidates are two near-duplicates that are
\* both highly relevant to the query plus one distinct, sufficiently relevant
\* candidate, search with MMR enabled and k = 2 never returns both
\* near-duplicates.
C9_MmrDiversity ==
    MmrOverThree =>
        \A d1, d2, x \in Matching(MemIndex, LastFilters) :
            DiversityCase(d1, d2, x) => ~(Returned(d1) /\ Returned(d2))

\* such a search, which returned two hits, the near-duplicates both having
\* entered the index before the distinct entry
C9_DiversitySearch ==
    /\ MmrOverThree
    /\ Len(mret) = 2
    /\ \E d1, d2, x \in Matching(MemIndex, LastFilters) :
           DiversityCase(d1, d2, x) /\ d1 < x /\ d2 < x

\* C10: every log_feedback call appends exactly one interaction record, and
\* no call modifies or removes an interaction record appended earlier.
C10_FeedbackAppendsOne ==
    /\ fbLast.op = "log_feedback" =>
           Len(fbInteractions) = Len(fbLast.pre) + 1
    /\ fbLast.op # "init" =>
           /\ Len(fbInteractions) >= Len(fbLast.pre)
           /\ SubSeq(fbInteractions, 1, Len(fbLast.pre)) = fbLast.pre

\* the query logged by the last call is a row of table queries, stored with
\* the embedding of its text
LastQueryLogged ==
    \E i \in 1..Len(fbQueries) :
        /\ fbQueries[i].qid = fbLast.qid
        /\ fbQueries[i].workspace = fbLast.workspace
        /\ fbQueries[i].query = fbLast.query
        /\ fbQueries[i].qembedding = <<EmbedOne(fbLast.query)>>

\* C11: every query() call logs the query with its embedding, with
\* use_learned true or false and the index empty or not; the call yields a
\* record of its own (one more row than before the call), and a later
\* get_similar_queries on the same text finds it.
C11_QueryLogsOwnRecord ==
    fbLast.op = "query" =>
        /\ LastQueryLogged
        /\ Len(fbQueries) = Len(fbLast.preq) + 1
        /\ fbLast.qid \in SeqToSet(GetSimilarQueries(FbTracker,
               fbLast.workspace, EmbedOne(fbLast.query), 350,
               Len(fbQueries)))

\* the interactions logged on the last query's text for the item of the file
\* returned first
FeedbackOnLastQuery ==
    LET item_id ==
            smItemMap[fbLast.workspace][fbLast.ret[1].metadata.selector]
        OnQuery(r) ==
            /\ r.item_id = item_id
            /\ r.qid[1] = fbLast.workspace
            /\ r.qid[2] = fbLast.qid[2]
    IN  SelectSeq(fbInteractions, OnQuery)

\* the interactions _learned_weight read for that item in the last query
InteractionsUsed ==
    GetItemInteractions(FbTracker,
        smItemMap[fbLast.workspace][fbLast.ret[1].metadata.selector],
        fbLast.cluster)

\* C12: once feedback for (q, i) is logged in a workspace, every later
\* query(q) with use_learned = true computes the learned weight of i from
\* interactions that include that feedback, however many queries and
\* feedback calls were logged before or in between.
C12_FeedbackReachesLaterQueries ==
    (fbLast.op = "query" /\ fbLast.use_learned /\ fbLast.ret # <<>>) =>
        SeqToSet(FeedbackOnLastQuery) \subseteq SeqToSet(InteractionsUsed)

\* C13: with the rest of the history fixed, one more interaction with
\* useful = +1 (any dwell, any rank) never lowers W_learned, and one more
\* with useful = -1 never raises it.
C13_LearnedWeightMonotone ==
    (fnPc = "done" /\ fnIn.op = "learned_weight") =>
        /\ fnIn.fb.useful = 1 => fnOut.after >= fnOut.before
        /\ fnIn.fb.useful = -1 => fnOut.after <= fnOut.before

\* a query with use_learned = true that follows a query of the same text
\* with use_learned = false over both items, feedback +1 for A and -1 for B
\* having been logged on that text in between, and nothing else
RepeatAfterFeedback ==
    /\ fbLast.op = "query"
    /\ fbLast.use_learned
    /\ RankBase # NULL
    /\ DOMAIN RankBase = {RankFileA[1], RankFileB[1]}
    /\ DOMAIN ScoreOf(fbLast.ret) = {RankFileA[1], RankFileB[1]}
    /\ RankSince = {<<RankFileA[1], 1>>, <<RankFileB[1], -1>>}

\* C14: after ingesting A and B, querying q with use_learned = false,
\* logging +1 for A and -1 for B on q, the repeated query q with
\* use_learned = true scores A strictly higher and B strictly lower than the
\* first query did.
C14_FeedbackMovesScores ==
    RepeatAfterFeedback =>
        /\ ScoreOf(fbLast.ret)[RankFileA[1]] > RankBase[RankFileA[1]]
        /\ ScoreOf(fbLast.ret)[RankFileB[1]] < RankBase[RankFileB[1]]

\* the step is a call of add, query or log_feedback on the SmartMemory of a
\* workspace other than a
CallElsewhere(a) ==
    /\ fbLast'.op \in {"add", "query", "log_feedback"}
    /\ fbLast'.workspace # a

\* C15: no add, query or feedback issued for workspace B changes what
\* workspace A observes from the store: its item, query and interaction
\* counts in get_workspace_stats, and its interactions.
C15_WorkspaceIsolation ==
    [][\A a \in Workspaces :
           CallElsewhere(a) =>
               GetWorkspaceStats(FbTracker, a)'
                   = GetWorkspaceStats(FbTracker, a)]_vars

\* C16: after any sequence of insert and handle_promotion calls,
\* resolve_path(query) returns, for every query string, the labels joined by
\* " > " of a chain that begins with the root label and ends with the label
\* of the best-matching node; on a hierarchy holding only the root it
\* returns the root label.
C16_ResolvePathFallsBack ==
    clast.op = "resolve_path" =>
        LET st    == CIState(tree, treeKeys, events)
            chain == PathLabels(st, ResolveNode(st, clast.label))
        IN  /\ cret # NeverReturns
            /\ cret = JoinPath(chain)
            /\ chain[1] = tree[ROOT].label
            /\ chain[Len(chain)] = tree[ResolveNode(st, clast.label)].label
            /\ DOMAIN tree = {ROOT} => cret = tree[ROOT].label

\* the nodes other than the root that are in no child list or in two
MisparentedNodes ==
    {n \in DOMAIN tree \ {ROOT} : Cardinality(Holders(tree, n)) # 1}

BothReturned == \A t \in Threads : thPc[t] = "done"

\* C17: handle_promotion(label, N) and a concurrent insert under the same
\* node leave a node with zero or two parents only when their steps were
\* interleaved (run one after the other, in either order, they leave every
\* node but the root in exactly one child list), and such an interleaving
\* exists.
C17_SerialCallsKeepOneParent ==
    (BothReturned /\ ~thMixed) => MisparentedNodes = {}

\* both calls have returned, their steps were interleaved, and a node is in
\* no child list or in two
C17_RaceMisparents ==
    /\ BothReturned
    /\ thMixed
    /\ MisparentedNodes # {}

\* C18: handle_promotion, and insert, addressed to a node id that is not in
\* the tree is a logged no-op: the tree is left unchanged, the event is
\* recorded, and no error is raised to the caller.
C18_UnknownNodeIsLoggedNoOp ==
    clast.op \in {"handle_promotion_unknown", "insert_unknown"} =>
        /\ tree = clast.pre
        /\ cret # KeyError
        /\ Len(events) = Len(clast.logged) + 1
        /\ SubSeq(events, 1, Len(clast.logged)) = clast.logged

\* C19: reset() clears all entries, the content-hash lookup too: from then
\* until the next add every search, whatever its query and filters, returns
\* an empty hit list, and an add of a text that was ingested before the
\* reset creates new entries for its chunks.
C19_ResetClearsAll ==
    /\ mlast.op = "reset" => MemIndex = EmptyIndex
    /\ (mlast.op = "search" /\ madded = {}) => mret = <<>>
    /\ (mlast.op = "add" /\ mlast.after_reset) =>
           /\ Len(mret) >= 1
           /\ Len(idxVecs) = Len(mret)
           /\ \A i \in 1..Len(mret) :
                  /\ mret[i].hash \in DOMAIN idxByHash
                  /\ idxMeta[idxByHash[mret[i].hash] + 1] = ChunkMeta(mret[i])

\* a page that was in the index is added again right after a reset
C19_ReaddedAfterReset ==
    /\ mlast.op = "add"
    /\ mlast.after_reset
    /\ Len(idxVecs) >= 1

(***************************************************************************)
(* embed_one and cosine on one text                                        *)
(***************************************************************************)
\* words per text
MaxEmbedWords == 2

\* the pieces the texts are built from: words (one in mixed case, two that
\* hash to the same index with opposite signs) and runs without a word
\* character
EmbedPieces ==
    { <<"j","w","t">>, <<"A","u","t","h">>, <<"f","l","o","w">>, <<"w">>,
      <<"a">>, <<"!","!","!">>, <<"-">> }

\* all texts of 1..n pieces separated by single spaces
RECURSIVE PieceTexts(_)
PieceTexts(n) ==
    IF n <= 1 THEN EmbedPieces
    ELSE PieceTexts(n - 1) \cup
         {t \o <<" ">> \o q : t \in PieceTexts(n - 1), q \in EmbedPieces}

EmbedTexts == PieceTexts(MaxEmbedWords) \cup {<<>>, <<" ">>}

EmbedInit ==
    /\ ConceptStart
    /\ MemStart
    /\ ChunkIdle
    /\ FeedbackStart
    /\ ThreadsIdle
    /\ fnIn \in [op : {"embed"}, text : EmbedTexts]
    /\ fnOut = <<>>
    /\ fnPc = "ready"

\* v = embed_one(text); cosine(v, v)
DoEmbed ==
    /\ fnPc = "ready"
    /\ fnIn.op = "embed"
    /\ LET v == EmbedOne(fnIn.text)
       IN  fnOut' = [tokens |-> Tokenize(fnIn.text),
                     vec    |-> v,
                     cos    |-> Cosine(v, v)]
    /\ fnPc' = "done"
    /\ UNCHANGED fnIn

EmbedNext ==
    DoEmbed
        /\ UNCHANGED <<conceptVars, memVars, chunkVars, feedbackVars,
                       threadVars>>

EmbedSpec == EmbedInit /\ [][EmbedNext]_vars

\* the accumulator of the embedded text has a non-zero entry
NonZeroVector == \E i \in DOMAIN fnOut.vec : fnOut.vec[i] # 0

MaxOthers == 1

HalfLifeMs == ScoringConfig.half_life_days * 86400 * SCALE

\* now_ms: one and a half half-lives after time 0
DecayNow == HalfLifeMs + HalfLifeMs \div 2

\* timestamps of the recent interaction: now, and half a half-life ago
RecentTimes == {DecayNow, HalfLifeMs}

\* timestamps of the old interaction: one and a half half-lives ago, and one
\* and an eighth
OldTimes == {0, 3 * (HalfLifeMs \div 8)}

DecayInit ==
    /\ ConceptStart
    /\ MemStart
    /\ ChunkIdle
    /\ FeedbackStart
    /\ ThreadsIdle
    /\ fnIn \in [op : {"decay"}, others : Histories(MaxOthers),
                 fb : LearnSignals, recent_ts : RecentTimes,
                 old_ts : OldTimes]
    /\ fnOut = <<>>
    /\ fnPc = "ready"

\* the decay factor, x and _learned_weight of the item with the interaction
\* logged at the recent timestamp, and with it logged at the old one
DoDecayCompare ==
    LET Weighed(recent, old) ==
            [decay_recent |-> Decay(DecayNow, fnIn.recent_ts,
                                    ScoringConfig.half_life_days),
             decay_old    |-> Decay(DecayNow, fnIn.old_ts,
                                    ScoringConfig.half_life_days),
             x_recent     |-> LearnedX(recent, DecayNow, ScoringConfig),
             x_old        |-> LearnedX(old, DecayNow, ScoringConfig),
             w_recent     |-> LearnedWeightOf(recent, DecayNow, ScoringConfig),
             w_old        |-> LearnedWeightOf(old, DecayNow, ScoringConfig)]
    IN  /\ fnPc = "ready"
        /\ fnIn.op = "decay"
        /\ fnOut' = Weighed(Append(fnIn.others,
                                   InteractionRow(fnIn.fb, fnIn.recent_ts)),
                            Append(fnIn.others,
                                   InteractionRow(fnIn.fb, fnIn.old_ts)))
        /\ fnPc' = "done"
        /\ UNCHANGED fnIn

DecayNext ==
    DoDecayCompare
        /\ UNCHANGED <<conceptVars, memVars, chunkVars, feedbackVars,
                       threadVars>>

DecaySpec == DecayInit /\ [][DecayNext]_vars

\* the upper end of the range sigmoid clamps x to, in millionths
ClampHigh == 10 * MICRO

CompareLabels ==
    { <<"j","w","t">>,
      <<"J","W","T">>,
      <<"a","u","t","h">>,
      <<"o","a","u","t","h">>,
      <<"j","w","t"," ","a","u","t","h">>,
      <<"j","w","t"," ","a","u","t","h","s">>,
      <<"J","W","T","-","A","u","t","h">>,
      <<"j","w","t"," ","a","p","i"," ","k","e","y">>,
      <<"j","w","t"," ","a","u","t","h"," ","f","l","o","w">>,
      <<"s","e","s","s","i","o","n"," ","t","o","k","e","n">>,
      <<"!","!","!">>,
      <<>> }

GeneralityInit ==
    /\ ConceptStart
    /\ MemStart
    /\ ChunkIdle
    /\ FeedbackStart
    /\ ThreadsIdle
    /\ fnIn \in [op : {"compare_generality"}, a : CompareLabels,
                 b : CompareLabels]
    /\ fnOut = <<>>
    /\ fnPc = "ready"

\* compare_generality(a, b) with the values it is computed from, and the
\* bias of the call with the arguments exchanged
DoCompareGenerality ==
    /\ fnPc = "ready"
    /\ fnIn.op = "compare_generality"
    /\ fnOut' = [len_a         |-> SpecificityScore(fnIn.a),
                 len_b         |-> SpecificityScore(fnIn.b),
                 bias          |-> GeneralityBias(fnIn.a, fnIn.b),
                 bias_rev      |-> GeneralityBias(fnIn.b, fnIn.a),
                 contains_bias |-> ContainsBias(fnIn.a, fnIn.b),
                 decision      |-> CompareGenerality(fnIn.a, fnIn.b)]
    /\ fnPc' = "done"
    /\ UNCHANGED fnIn

GeneralityNext ==
    DoCompareGenerality
        /\ UNCHANGED <<conceptVars, memVars, chunkVars, feedbackVars,
                       threadVars>>

GeneralitySpec == GeneralityInit /\ [][GeneralityNext]_vars

\* the two proxies differ by at most 15% of the larger one
WithinLarger(la, lb) == 20 * Abs(la - lb) <= 3 * Max(la, lb)

\* C22: the bias of compare_generality is 0 exactly when the two proxies
\* differ by at most 15% of the larger proxy, and otherwise +1 or -1 toward
\* the larger proxy; hence bias(a, b) = -bias(b, a).
C22_BiasTieAndAntisymmetry ==
    (fnPc = "done" /\ fnIn.op = "compare_generality") =>
        /\ fnOut.bias = 0 <=> WithinLarger(fnOut.len_a, fnOut.len_b)
        /\ fnOut.bias # 0 =>
               fnOut.bias = (IF fnOut.len_a > fnOut.len_b THEN 1 ELSE -1)
        /\ fnOut.bias = -fnOut.bias_rev

\* the normalized text of y occurs in the normalized text of x
Mentions(x, y) ==
    HasSubstring(SlugSub(LowerStr(x), " "), SlugSub(LowerStr(y), " "))

\* C23: compare_generality adds +0.5 when b's normalized text is a substring
\* of a's and -0.5 when a's is a substring of b's; so with bias 0 and b a
\* proper substring of a the result is more_specific, and with a a proper
\* substring of b it is more_general.
C23_ContainmentAdjusts ==
    (fnPc = "done" /\ fnIn.op = "compare_generality") =>
        /\ fnOut.contains_bias =
               (IF Mentions(fnIn.a, fnIn.b) THEN 1 ELSE 0)
                   - (IF Mentions(fnIn.b, fnIn.a) THEN 1 ELSE 0)
        /\ (fnOut.bias = 0 /\ Mentions(fnIn.a, fnIn.b)
                           /\ ~Mentions(fnIn.b, fnIn.a)) =>
               fnOut.decision = "more_specific"
        /\ (fnOut.bias = 0 /\ Mentions(fnIn.b, fnIn.a)
                           /\ ~Mentions(fnIn.a, fnIn.b)) =>
               fnOut.decision = "more_general"


(***************************************************************************)
(* insert(label, start_id) from any node of the tree                       *)
(***************************************************************************)
\* calls are made while the audit log is shorter than this
MaxStartEvents == 4

\* index.insert(label, start_id), start_id a node of the tree
DoInsertAt(label, start_id) ==
    /\ Len(events) < MaxStartEvents
    /\ ConceptResult(Insert(CIState(tree, treeKeys, events), label, start_id))
    /\ clast' = [op |-> "insert_at", label |-> label, start |-> start_id,
                 decision |-> CompareGenerality(label, tree[start_id].label),
                 pre |-> tree, keys |-> treeKeys, logged |-> events]
    /\ UNCHANGED insRet

\* index.handle_promotion(label, node_id), node_id a node of the tree
DoPromoteAt(label, node_id) ==
    /\ Len(events) < MaxStartEvents
    /\ ConceptResult(HandlePromotion(CIState(tree, treeKeys, events),
                                     label, node_id))
    /\ clast' = [op |-> "handle_promotion", label |-> label,
                 node |-> node_id, pre |-> tree]
    /\ UNCHANGED insRet

InsertAtNext ==
    /\ \/ \E label \in Labels : \E start_id \in DOMAIN tree :
              DoInsertAt(label, start_id)
       \/ \E label \in Labels : \E node_id \in DOMAIN tree :
              DoPromoteAt(label, node_id)
    /\ UNCHANGED <<memVars, chunkVars, feedbackVars, pureVars, threadVars>>

InsertAtSpec == ConceptInit /\ [][InsertAtNext]_vars

\* the last call was insert(label, start) and compare_generality(label,
\* start's label) gave this decision
InsertDecided(decision) ==
    clast.op = "insert_at" /\ clast.decision = decision

\* the last call left the node set, every parent pointer, every child list
\* and the audit log as they were
NothingChanged ==
    /\ tree = clast.pre
    /\ treeKeys = clast.keys
    /\ events = clast.logged

\* C24 as stated: insert(label, start) with a same_level comparison creates
\* no node, changes no parent pointer or child list, and returns the id of
\* start's parent.
C24_SameLevelReturnsParent ==
    InsertDecided("same_level") =>
        /\ NothingChanged
        /\ cret = clast.pre[clast.start].parent_id

\* C24: insert(label, start) with a same_level comparison creates no node,
\* changes no parent pointer or child list, and returns the id in start's
\* parent pointer, or start's own id when start has no parent (the root).
C24_SameLevelReturnsParentOrStart ==
    InsertDecided("same_level") =>
        /\ NothingChanged
        /\ cret = IF clast.pre[clast.start].parent_id # NULL
                  THEN clast.pre[clast.start].parent_id
                  ELSE clast.start

\* a same_level insert at a node below another one returned that node's id
C24_MergedIntoParent ==
    /\ InsertDecided("same_level")
    /\ clast.pre[clast.start].parent_id # NULL
    /\ cret = clast.pre[clast.start].parent_id
    /\ cret # clast.start


\* the index as it was before the last call
BeforeLast == CIState(clast.pre, clast.keys, clast.logged)

\* the index and the return value are those of insert(label, child_id) made
\* on the index as it was before
SameAsInsertInto(child_id) ==
    LET Same(r) == tree = r.st.tree /\ events = r.st.events /\ cret = r.ret
    IN  Same(Insert(BeforeLast, clast.label, child_id))

\* C25: insert(label, start) with a more_specific comparison recurses into
\* the first child of start, in list order, that is related to label; when
\* no child is related it returns the id of the node for label, and that
\* node is a child of start: its parent pointer is start and start's child
\* list contains it.
C25_MoreSpecificDescendsOrAttaches ==
    InsertDecided("more_specific") =>
        LET Settled(k) ==
                IF k # 0
                THEN SameAsInsertInto(clast.pre[clast.start].children[k])
                ELSE /\ cret = NodeId(clast.label)
                     /\ tree[cret].parent_id = clast.start
                     /\ cret \in ChildSet(tree, clast.start)
        IN  Settled(FirstRelatedChild(BeforeLast, clast.label, clast.start))

\* the last call appended a promotion event as its last event
EndedInPromotion ==
    /\ Len(events) > Len(clast.logged)
    /\ events[Len(events)].action = "promotion"

\* C26: handle_promotion is the only operation that rewires existing edges:
\* an insert that does not end in a promotion leaves the parent pointer of
\* every node that existed before as it was, and changes a child list only
\* by appending the new node.
C26_OnlyPromotionRewires ==
    (clast.op = "insert_at" /\ ~EndedInPromotion) =>
        \A n \in DOMAIN clast.pre :
            /\ tree[n].parent_id = clast.pre[n].parent_id
            /\ \/ tree[n].children = clast.pre[n].children
               \/ \E c \in DOMAIN tree \ DOMAIN clast.pre :
                      tree[n].children = Append(clast.pre[n].children, c)


(***************************************************************************)
(* _Index.upsert called with lists of (vector, metadata) pairs             *)
(***************************************************************************)
\* the pairs of one call
MaxPairs == 2

\* the texts whose hashes the metadata carry
UpsertTexts == {<<"j","w","t">>, <<"a","u","t","h">>}

\* the vectors given: any vector may come with any hash
UpsertVecs == {EmbedOne(t) : t \in UpsertTexts}

\* the metadata dicts given: one per hash, and one with other keys
UpsertMetas ==
    {[hash |-> TextHash(t), url |-> <<"a",".","i","o","/","x">>] :
         t \in UpsertTexts}
    \cup {[hash |-> TextHash(<<"j","w","t">>),
           url |-> <<"b",".","i","o","/","x">>,
           selector |-> DefaultSelector]}

\* all lists of 1..n elements of S
RECURSIVE ListsUpTo(_, _)
ListsUpTo(S, n) ==
    IF n <= 1 THEN {<<x>> : x \in S}
    ELSE ListsUpTo(S, n - 1) \cup
         {Append(l, x) : l \in {g \in ListsUpTo(S, n - 1) : Len(g) = n - 1},
                         x \in S}

\* index.upsert(vecs, metas), the two lists given as one list of pairs
DoUpsert(pairs) ==
    /\ SetIndex(IndexUpsert(MemIndex,
                            [i \in 1..Len(pairs) |-> pairs[i][1]],
                            [i \in 1..Len(pairs) |-> pairs[i][2]]))
    /\ mret' = NULL
    /\ mlast' = [op |-> "upsert", pairs |-> pairs, pre |-> MemIndex]
    /\ UNCHANGED madded

UpsertNext ==
    /\ \E pairs \in ListsUpTo(UpsertVecs \X UpsertMetas, MaxPairs) :
           DoUpsert(pairs)
    /\ UNCHANGED <<conceptVars, chunkVars, feedbackVars, pureVars, threadVars>>

UpsertSpec == MemInit /\ [][UpsertNext]_vars

\* the hashes of the call's pairs
CallHashes(pairs) == {pairs[i][2].hash : i \in 1..Len(pairs)}

\* the first and the last pair of the call that carry hash h
FirstWith(pairs, h) ==
    pairs[CHOOSE i \in 1..Len(pairs) :
              /\ pairs[i][2].hash = h
              /\ \A j \in 1..(i - 1) : pairs[j][2].hash # h]

LastWith(pairs, h) ==
    pairs[CHOOSE i \in 1..Len(pairs) :
              /\ pairs[i][2].hash = h
              /\ \A j \in (i + 1)..Len(pairs) : pairs[j][2].hash # h]

\* C27: an upsert of a pair whose content hash is already in the index
\* leaves the entry count, the entry's position and its stored vector
\* unchanged and replaces its metadata wholesale with the one given; a pair
\* with an unseen hash appends exactly one entry.
C27_UpsertDeduplicates ==
    mlast.op = "upsert" =>
        LET Holds(pre, pairs) ==
                \* one entry more for every unseen hash, none for a seen one
                /\ Len(idxVecs) = Len(pre.vecs)
                       + Cardinality(CallHashes(pairs) \ DOMAIN pre.by_hash)
                /\ Len(idxMeta) = Len(idxVecs)
                \* entries stay where they were, with the vector they had
                /\ SubSeq(idxVecs, 1, Len(pre.vecs)) = pre.vecs
                /\ \A h \in DOMAIN pre.by_hash : idxByHash[h] = pre.by_hash[h]
                \* the metadata is the one given last, with its keys only
                /\ \A h \in CallHashes(pairs) :
                       idxMeta[idxByHash[h] + 1] = LastWith(pairs, h)[2]
                \* an appended entry holds the vector it came with
                /\ \A h \in CallHashes(pairs) \ DOMAIN pre.by_hash :
                       /\ idxByHash[h] >= Len(pre.vecs)
                       /\ idxVecs[idxByHash[h] + 1] = FirstWith(pairs, h)[1]
                \* entries the call does not name keep their metadata
                /\ \A h \in DOMAIN pre.by_hash \ CallHashes(pairs) :
                       idxMeta[idxByHash[h] + 1] = pre.meta[pre.by_hash[h] + 1]
        IN  Holds(mlast.pre, mlast.pairs)

\* a one-pair upsert on a hash the index holds, with another vector than
\* the stored one and a metadata dict with other keys, into an index of two
\* entries
C27_SeenHashUpserted ==
    /\ mlast.op = "upsert"
    /\ Len(mlast.pairs) = 1
    /\ Len(mlast.pre.vecs) = 2
    /\ mlast.pairs[1][2].hash \in DOMAIN mlast.pre.by_hash
    /\ mlast.pre.by_hash[mlast.pairs[1][2].hash] = 0
    /\ mlast.pairs[1][1] # mlast.pre.vecs[1]
    /\ DOMAIN mlast.pairs[1][2] # DOMAIN mlast.pre.meta[1]
    /\ idxMeta[1] = mlast.pairs[1][2]
    /\ idxVecs = mlast.pre.vecs


(***************************************************************************)
(* chunk_text run one turn of its loop at a time, for every window and     *)
(* overlap, the overlap at or above the window included                    *)
(***************************************************************************)
\* the calls chunk_text(charter, url, selector, text, None, size, overlap)
\* with any overlap
LoopInputs ==
    {[n |-> n, text |-> TextOfWords(n, gap), size |-> size,
      overlap |-> overlap] :
        n \in 0..MaxTokens, gap \in 1..2,
        size \in 1..MaxWindow, overlap \in 0..(MaxWindow + 1)}

LoopInit ==
    /\ ConceptStart
    /\ MemStart
    /\ FeedbackStart
    /\ PureIdle
    /\ ThreadsIdle
    /\ chIn \in LoopInputs
    /\ chOut = <<>>
    /\ chPc = "ready"

\* step = max(1, size - overlap)
LoopStep(size, overlap) == Max(1, size - overlap)

\* a loop that never leaves at `if end == n`
LoopNeverBreaks(n, end) == FALSE

\* if end == n: break
LoopBreaks(n, end) == end = n

\* the value of start in the next turn of `for start in range(0, n, step)`:
\* 0 at first, then the start of the chunk appended last plus step
NextStart ==
    IF chOut = <<>> THEN 0
    ELSE chOut[Len(chOut)].start_idx + LoopStep(chIn.size, chIn.overlap)

\* chunk_text up to the loop: [] for a text without tokens
LoopEnter ==
    /\ chPc = "ready"
    /\ chPc' = IF Len(SplitTokens(chIn.text)) = 0 THEN "done" ELSE "loop"
    /\ chOut' = <<>>
    /\ UNCHANGED chIn

\* one turn of the loop: the range is exhausted, or a chunk is appended and
\* the loop is left when its end is n
LoopTurn ==
    LET Turn(toks, start) ==
            IF start >= Len(toks)
            THEN chPc' = "done" /\ UNCHANGED chOut
            ELSE /\ chOut' = Append(chOut,
                         MakeChunk(MemCharter, <<"a",".","i","o","/","x">>,
                                   DefaultSelector, toks, NULL, chIn.size,
                                   chIn.overlap, start,
                                   Min(Len(toks), start + chIn.size)))
                 /\ chPc' = IF LoopBreaks(Len(toks),
                                          Min(Len(toks), start + chIn.size))
                            THEN "done" ELSE "loop"
    IN  /\ chPc = "loop"
        /\ Turn(SplitTokens(chIn.text), NextStart)
        /\ UNCHANGED chIn

LoopNext ==
    /\ LoopEnter \/ LoopTurn
    /\ UNCHANGED <<conceptVars, memVars, feedbackVars, pureVars, threadVars>>

\* the loop is straight-line code: a call that can take a step takes it
LoopSpec == LoopInit /\ [][LoopNext]_vars /\ WF_vars(LoopNext)

\* the chunks so far all end before the input's end
NoneAtEnd(chunks) == \A i \in 1..Len(chunks) : chunks[i].end_idx < chIn.n

\* while the loop runs no chunk has reached the input's end; when the call
\* has returned for a non-empty input, the last chunk returned ends at the
\* input's length and is the first that does; the chunks are those of
\* chunk_text
StopsAtFirstEnd ==
    /\ chPc = "loop" => NoneAtEnd(chOut)
    /\ (chPc = "done" /\ chIn.n >= 1) =>
           /\ Len(chOut) >= 1
           /\ chOut[Len(chOut)].end_idx = chIn.n
           /\ NoneAtEnd(SubSeq(chOut, 1, Len(chOut) - 1))
    /\ chPc = "done" =>
           chOut = ChunkText(MemCharter, <<"a",".","i","o","/","x">>,
                             DefaultSelector, chIn.text, NULL, chIn.size,
                             chIn.overlap)

\* C28: chunk_text terminates for every text and every window/overlap pair,
\* an overlap at or above the window included (the step is forced to at
\* least 1); for a non-empty input the loop stops at the first chunk whose
\* end equals the input length, and that chunk is the last one returned.
C28_ChunkTextTerminates ==
    /\ <>(chPc = "done")
    /\ []StopsAtFirstEnd

\* a call with the overlap above the window that returned three chunks or
\* more, the last one ending at the input's length
C28_OverlapAboveWindow ==
    /\ chPc = "done"
    /\ chIn.overlap > chIn.size
    /\ chIn.size >= 2
    /\ Len(chOut) >= 3
    /\ chOut[Len(chOut)].end_idx = chIn.n


\* what the last search returns with MMR disabled
LastPlain ==
    MemorySearch(MemIndex, MemCharter, mlast.query, mlast.k, mlast.filters,
                 mlast.filter_allowed, FALSE)

\* C29: for every index content, query and k >= 1, search with MMR enabled
\* returns as its first hit the entry matching the filters that has the
\* highest cosine to the query, the same first hit as with MMR disabled (and
\* no hit exactly when no entry matches).
C29_MmrKeepsBestFirst ==
    (mlast.op = "search" /\ mlast.mmr /\ mlast.k >= 1) =>
        LET Best(plain, match) ==
                /\ mret = <<>> <=> match = {}
                /\ match # {} =>
                       /\ mret[1] = plain[1]
                       /\ \E i \in match : /\ mret[1].metadata = idxMeta[i]
                                           /\ mret[1].score = LastRel(i)
                       /\ \A i \in match : mret[1].score >= LastRel(i)
        IN  Best(LastPlain, Matching(MemIndex, LastFilters))

\* a search with MMR and k = 2 over three matching entries, the first of
\* the index not the closest to the query: the first hit is another entry,
\* the one that comes first without MMR
C29_BestNotFirstAdded ==
    /\ mlast.op = "search" /\ mlast.mmr /\ mlast.k = 2
    /\ Cardinality(Matching(MemIndex, LastFilters)) = 3
    /\ \E i \in Matching(MemIndex, LastFilters) : LastRel(i) > LastRel(1)
    /\ Len(mret) = 2
    /\ mret[1] = LastPlain[1]
    /\ mret[1].metadata # idxMeta[1]


(***************************************************************************)
(* Queries with and without learning over items with votes and long dwell  *)
(***************************************************************************)
\* log_feedback signals: a vote up, a vote down, and a vote up with a dwell
\* of 20 s at rank 1, which puts x above the clamp of the sigmoid
WeighSignals ==
    {Feedback(1, 0, 0), Feedback(-1, 0, 0), Feedback(1, 20 * SCALE, 1)}

\* the calls of this session, one millisecond apart
MaxWeighCalls == 5

\* memory.add(file_path, content), once for a file
WsAdd(f) ==
    LET Added(r) ==
            /\ SetTracker(r.db)
            /\ smItemMap' = [smItemMap EXCEPT ![RankWorkspace] = r.sm.item_map]
            /\ smIndex' = [smIndex EXCEPT ![RankWorkspace] = r.sm.index]
    IN  /\ fbNow < MaxWeighCalls
        /\ f[1] \notin DOMAIN smItemMap[RankWorkspace]
        /\ Added(SmartAdd(FbTracker, RankMemory, RankWorkspace, f[1], f[2],
                          NULL, fbNow + 1))
        /\ fbNow' = fbNow + 1
        /\ fbLast' = [op |-> "add", workspace |-> RankWorkspace,
                      file_path |-> f[1]]

\* memory.query(query, k, use_learned)
WsQuery(use_learned) ==
    LET Answered(r) ==
            /\ SetTracker(r.db)
            /\ fbLast' = [op |-> "query", workspace |-> RankWorkspace,
                          query |-> RankQuery, use_learned |-> use_learned,
                          qid |-> r.qid, cluster |-> r.cluster, ret |-> r.ret]
    IN  /\ fbNow < MaxWeighCalls
        /\ Answered(SmartQuery(FbTracker, RankMemory, RankWorkspace, RankQuery,
                               RankK, use_learned, fbNow + 1))
        /\ fbNow' = fbNow + 1
        /\ UNCHANGED <<smItemMap, smIndex>>

\* memory.log_feedback(query, file_path, useful, dwell_ms, click_rank)
WsLogFeedback(file_path, fb) ==
    /\ fbNow < MaxWeighCalls
    /\ SetTracker(SmartLogFeedback(FbTracker, RankMemory, RankWorkspace,
                                   RankQuery, file_path, fb.useful,
                                   fb.dwell_ms, fb.click_rank, fbNow + 1))
    /\ fbNow' = fbNow + 1
    /\ fbLast' = [op |-> "log_feedback", workspace |-> RankWorkspace,
                  file_path |-> file_path]
    /\ UNCHANGED <<smItemMap, smIndex>>

WeighNext ==
    /\ \/ \E f \in RankFiles : WsAdd(f)
       \/ \E use_learned \in BOOLEAN : WsQuery(use_learned)
       \/ \E f \in RankFiles : \E fb \in WeighSignals : WsLogFeedback(f[1], fb)
    /\ UNCHANGED <<conceptVars, memVars, chunkVars, pureVars, threadVars>>

WeighSpec == RankInit /\ [][WeighNext]_vars

\* beta * W_learned of a hit of the last query: its total less alpha * S_sem
LearnedPart(hit) ==
    hit.score - ScoringConfig.alpha * SCALE
                    * Cosine(EmbedOne(fbLast.query), EmbedOne(hit.text))

\* the interactions of the hit's item with the queries of the last query's
\* cluster
InClusterRows(hit) ==
    GetItemInteractions(FbTracker,
        smItemMap[fbLast.workspace][hit.metadata.selector], fbLast.cluster)

\* C30: W_learned is 0 exactly when learning is disabled or the item has no
\* interaction in the query's cluster; with at least one such interaction
\* and learning enabled it lies strictly between 0 and 1, so with beta > 0
\* the total is strictly above alpha * S_sem.
C30_LearnedWeightRange ==
    fbLast.op = "query" =>
        \A h \in 1..Len(fbLast.ret) :
            LET Ranged(part, rows) ==
                    /\ part = 0 <=> (~fbLast.use_learned \/ rows = <<>>)
                    /\ (fbLast.use_learned /\ rows # <<>>) =>
                           /\ 0 < part
                           /\ part < ScoringConfig.beta * MICRO
                           /\ fbLast.ret[h].score
                                  > ScoringConfig.alpha * SCALE
                                      * Cosine(EmbedOne(fbLast.query),
                                               EmbedOne(fbLast.ret[h].text))
            IN  Ranged(LearnedPart(fbLast.ret[h]), InClusterRows(fbLast.ret[h]))

\* a query with learning over two items, one with an interaction in the
\* cluster that puts x above the clamp, the other with none
C30_ClampedAndUnvoted ==
    /\ fbLast.op = "query"
    /\ fbLast.use_learned
    /\ Len(fbLast.ret) = 2
    /\ \E g, h \in 1..2 :
           /\ InClusterRows(fbLast.ret[g]) = <<>>
           /\ LearnedPart(fbLast.ret[g]) = 0
           /\ InClusterRows(fbLast.ret[h]) # <<>>
           /\ LearnedX(InClusterRows(fbLast.ret[h]), fbNow, ScoringConfig)
                  >= ClampHigh
           /\ LearnedPart(fbLast.ret[h]) > 0

====
